---- MODULE Spec2Model ----
(***************************************************************************)
(* Swap-chain lifecycle and frame-presentation protocol of donut_examples. *)
(*                                                                         *)
(* Two implementations of VulkanSwapChain live in the repository:          *)
(*   "example" : class VulkanSwapChain and DeviceManager_Vulkan of the     *)
(*               basic_triangle_tinyrhi example (src/unnamed/part_006)     *)
(*   "tinyrhi" : tinyrhi::vulkan::VulkanSwapChain                          *)
(*               (src/tinyrhi/src/vulkan/vulkan-swapchain.cpp:242-399)     *)
(* The Vulkan driver, the GPU and the presentation engine are modelled as  *)
(* a recording backend: every call the code makes is appended to the log   *)
(* of the running operation, handles are small integers, 0 is              *)
(* VK_NULL_HANDLE.                                                         *)
(*                                                                         *)
(* Results of the calls whose result the code inspects or passes to        *)
(* VK_CHECK_RESULT / assert are chosen nondeterministically for            *)
(* vkWaitForFences, vkAcquireNextImageKHR, vkQueueSubmit,                  *)
(* vkQueuePresentKHR and vkCreateSwapchainKHR; object creation of fences,  *)
(* semaphores and command buffers is taken to succeed.                     *)
(***************************************************************************)
EXTENDS Integers, Sequences, FiniteSets, TLC

\* ---------------------------------------------------------------- constants
MAX_CONCURRENT_FRAMES == 2

VK_NULL_HANDLE == 0

\* VkResult values the model distinguishes
VK_SUCCESS == "VK_SUCCESS"
VK_SUBOPTIMAL_KHR == "VK_SUBOPTIMAL_KHR"
VK_ERROR_OUT_OF_DATE_KHR == "VK_ERROR_OUT_OF_DATE_KHR"
VK_ERROR == "VK_ERROR"

\* ------------------------------------------------------------------- bounds
MaxFrames == 3
MaxCreates == 3
MaxImages == 2

NoSlot == 0 - 1

Slots == 0 .. (MAX_CONCURRENT_FRAMES - 1)

VARIABLES
    impl,            \* which VulkanSwapChain is compiled: "example" | "tinyrhi"
    ndebug,          \* TRUE when assert() is compiled out (NDEBUG)
    appState,        \* "constructed" | "prepared" | "crashed" | "aborted" | "thrown"
    swapChain,       \* VulkanSwapChain::swapChain
    imageCount,      \* VulkanSwapChain::imageCount
    buffers,         \* buffers[i].view, as a sequence of view handles
    liveChains,      \* backend: swap-chain handles created and not destroyed
    liveViews,       \* backend: image-view handles created and not destroyed
    chainsCreated,   \* backend: number of handles vkCreateSwapchainKHR produced
    createCalls,     \* number of create() calls so far
    entryHandle,     \* handle the object held when the last create() was entered
    createLog,       \* backend calls of the last create(), in call order
    waitFences,      \* per slot: "none" | "signaled" | "unsignaled"
    presentCompleteSemaphores,  \* per slot: TRUE when signaled
    renderCompleteSemaphores,   \* per slot: TRUE when signaled
    currentFrame,    \* DeviceManager_Vulkan::currentFrame
    currentBuffer,   \* DeviceManager_Vulkan::currentBuffer
    frameNo,         \* number of render() calls so far
    frameLog,        \* backend calls of the last render(), in call order
    gpuQueue,        \* submissions accepted by vkQueueSubmit, not yet executed
    presentQueue,    \* present requests accepted, not yet processed
    gpuDone,         \* frames whose submission the GPU has completed
    submitted,       \* frames whose vkQueueSubmit succeeded
    presented,       \* frames whose image the presentation engine has shown
    slotUses,        \* per slot: number of render() calls that waited on it
    sel,             \* surface report create() reads and the parameters it selects
    boot,            \* startup: position in main/initVulkan, stages run, bindings
    teardownLog,     \* backend calls of the last destroySwapChain(), in call order
    dev,             \* queue-family table of the device and what device creation derives from it
    inst             \* what instance creation is asked for and what it did

chainVars == <<swapChain, imageCount, buffers, liveChains, liveViews,
               chainsCreated, createCalls, entryHandle, createLog>>
syncVars == <<waitFences, presentCompleteSemaphores, renderCompleteSemaphores>>
frameVars == <<currentFrame, currentBuffer, frameNo, frameLog, submitted, slotUses>>
gpuVars == <<gpuQueue, presentQueue, gpuDone, presented>>
extVars == <<sel, boot, teardownLog, dev, inst>>
vars == <<impl, ndebug, appState, chainVars, syncVars, frameVars, gpuVars, extVars>>

\* ------------------------------------------------------- recording backend
\* One call of create(): op, the handle it concerns, CI.oldSwapchain, result
CEv(op, h, old, res) == [op |-> op, h |-> h, old |-> old, res |-> res]

\* One call of render(): op, fence slot, wait-semaphore slot, signal-semaphore
\* slot, command-buffer index, swap chain it targets, result
FEv(op, fence, wsem, ssem, cb, chain, res) ==
    [op |-> op, fence |-> fence, wsem |-> wsem, ssem |-> ssem, cb |-> cb,
     chain |-> chain, res |-> res]

\* Image view handle of image i (1-based) of chain h
ViewId(h, i) == h * 10 + i

RECURSIVE DestroyViews(_, _, _)
DestroyViews(bufs, i, n) ==
    IF i > n THEN <<>>
    ELSE <<CEv("vkDestroyImageView", IF i <= Len(bufs) THEN bufs[i] ELSE VK_NULL_HANDLE,
               VK_NULL_HANDLE, VK_SUCCESS)>> \o DestroyViews(bufs, i + 1, n)

SeqRange(s) == {s[i] : i \in 1 .. Len(s)}


\* std::vector::resize: keeps the leading entries, value-initialises new ones
Resize(bufs, n) ==
    [i \in 1 .. n |-> IF i <= Len(bufs) THEN bufs[i] ELSE VK_NULL_HANDLE]

\* Views the teardown loop of create() hands to vkDestroyImageView
OldViews == {buffers[i] : i \in {j \in 1 .. Len(buffers) : j <= imageCount}}

\* ------------------------------------------------ VulkanSwapChain::create
\* Teardown that does not test the old handle against VK_NULL_HANDLE
Teardown_Unguarded(oldSwapchain) ==
    DestroyViews(buffers, 1, imageCount)
    \o <<CEv("vkDestroySwapchainKHR", oldSwapchain, VK_NULL_HANDLE, VK_SUCCESS)>>

\* Teardown step of create(): every view of the old chain, then the handle.
Teardown(oldSwapchain) ==
    IF oldSwapchain # VK_NULL_HANDLE
    THEN DestroyViews(buffers, 1, imageCount)
         \o <<CEv("vkDestroySwapchainKHR", oldSwapchain, VK_NULL_HANDLE, VK_SUCCESS)>>
    ELSE <<>>

\* Create info whose oldSwapchain is left at VK_NULL_HANDLE
OldSwapchainArg_Null(oldSwapchain) == VK_NULL_HANDLE

\* Value create() stores in swapchainCI.oldSwapchain
OldSwapchainArg(oldSwapchain) == oldSwapchain

\* create() of the example.  res: result of vkCreateSwapchainKHR; leave: what
\* a failed call leaves in swapChain; n: image count the driver reports;
\* ub: outcome of indexing the never-resized vector buffers.
create_example(res, leave, n, ub) ==
    LET oldSwapchain == swapChain
        created == res = VK_SUCCESS
        newChain == IF created THEN chainsCreated + 1 ELSE leave
        evCreate == <<CEv("vkCreateSwapchainKHR", newChain,
                          OldSwapchainArg(oldSwapchain), res)>>
        evTeardown == Teardown(oldSwapchain)
        chains1 == IF created THEN liveChains \cup {newChain} ELSE liveChains
        chains2 == IF Len(evTeardown) > 0 THEN chains1 \ {oldSwapchain} ELSE chains1
        views2 == IF Len(evTeardown) > 0 THEN liveViews \ OldViews ELSE liveViews
        valid == newChain \in chains2
        getRes == IF valid THEN VK_SUCCESS ELSE VK_ERROR
        evGet == <<CEv("vkGetSwapchainImagesKHR", newChain, VK_NULL_HANDLE, getRes),
                   CEv("vkGetSwapchainImagesKHR", newChain, VK_NULL_HANDLE, getRes)>>
        crash == n > 0 /\ ub = "crash"
        newViews == [i \in 1 .. n |-> IF valid THEN ViewId(newChain, i) ELSE VK_NULL_HANDLE]
        evViews == [i \in 1 .. n |-> CEv("vkCreateImageView", newViews[i],
                                         VK_NULL_HANDLE, getRes)]
    IN  [swapChain |-> newChain,
         imageCount |-> n,
         buffers |-> IF crash THEN buffers ELSE newViews,
         liveChains |-> chains2,
         liveViews |-> IF crash THEN views2
                       ELSE views2 \cup (SeqRange(newViews) \ {VK_NULL_HANDLE}),
         chainsCreated |-> IF created THEN chainsCreated + 1 ELSE chainsCreated,
         log |-> IF crash THEN evCreate \o evTeardown \o evGet
                 ELSE evCreate \o evTeardown \o evGet \o evViews,
         outcome |-> IF crash THEN "crashed" ELSE "ok"]

\* create() of tinyrhi.  Every Vulkan call that returns a VkResult is written
\* inside assert(): with NDEBUG the call is not made, without NDEBUG the
\* assertion demands a nonzero (non-success) result.
create_tinyrhi(res, leave, n) ==
    LET oldSwapChain == swapChain
        called == ~ndebug
        created == called /\ res = VK_SUCCESS
        newChain == IF ~called THEN swapChain
                    ELSE IF created THEN chainsCreated + 1 ELSE leave
        evCreate == IF called
                    THEN <<CEv("vkCreateSwapchainKHR", newChain,
                               OldSwapchainArg(oldSwapChain), res)>>
                    ELSE <<>>
        chains1 == IF created THEN liveChains \cup {newChain} ELSE liveChains
        abort == created
        evTeardown == Teardown(oldSwapChain)
        chains2 == IF Len(evTeardown) > 0 THEN chains1 \ {oldSwapChain} ELSE chains1
        views2 == IF Len(evTeardown) > 0 THEN liveViews \ OldViews ELSE liveViews
        evGet == IF called
                 THEN <<CEv("vkGetSwapchainImagesKHR", newChain, VK_NULL_HANDLE, VK_ERROR),
                        CEv("vkGetSwapchainImagesKHR", newChain, VK_NULL_HANDLE, VK_ERROR)>>
                 ELSE <<>>
        evViews == IF called
                   THEN [i \in 1 .. n |-> CEv("vkCreateImageView", VK_NULL_HANDLE,
                                              VK_NULL_HANDLE, VK_ERROR)]
                   ELSE <<>>
    IN  IF abort
        THEN [swapChain |-> newChain, imageCount |-> imageCount, buffers |-> buffers,
              liveChains |-> chains1, liveViews |-> liveViews,
              chainsCreated |-> chainsCreated + 1,
              log |-> evCreate, outcome |-> "aborted"]
        ELSE [swapChain |-> newChain, imageCount |-> n,
              buffers |-> Resize(buffers, n),
              liveChains |-> chains2, liveViews |-> views2,
              chainsCreated |-> chainsCreated,
              log |-> evCreate \o evTeardown \o evGet \o evViews,
              outcome |-> "ok"]

\* Inputs of one create() call that the driver and the build can produce
CreateInputs ==
    {in \in [res : {VK_SUCCESS, VK_ERROR},
             leave : {VK_NULL_HANDLE, swapChain},
             n : 0 .. MaxImages,
             ub : {"asif", "crash"}] :
        /\ in.res = VK_SUCCESS => in.leave = VK_NULL_HANDLE
        /\ impl = "example" =>
              IF in.res = VK_SUCCESS THEN in.n >= 1 ELSE in.n \in {0, imageCount}
        /\ impl = "tinyrhi" =>
              /\ in.ub = "asif"
              /\ (createCalls > 0 /\ ndebug) => in.n = imageCount
              /\ ndebug => in.res = VK_ERROR /\ in.leave = VK_NULL_HANDLE
        /\ in.n = 0 => in.ub = "asif"}

create(in) ==
    IF impl = "example" THEN create_example(in.res, in.leave, in.n, in.ub)
    ELSE create_tinyrhi(in.res, in.leave, in.n)

\* The state create() leaves behind
CreateEffect(r) ==
    /\ swapChain' = r.swapChain
    /\ imageCount' = r.imageCount
    /\ buffers' = r.buffers
    /\ liveChains' = r.liveChains
    /\ liveViews' = r.liveViews
    /\ chainsCreated' = r.chainsCreated
    /\ createCalls' = createCalls + 1
    /\ entryHandle' = swapChain
    /\ createLog' = r.log

AfterCreate(r) ==
    IF r.outcome = "ok" THEN "prepared" ELSE r.outcome


\* ------------------------------------------------------------------- Init
\* State after construction of DeviceManager_Vulkan / the tinyrhi globals.
InitCore ==
    /\ impl \in {"example", "tinyrhi"}
    /\ ndebug \in BOOLEAN
    /\ appState = "constructed"
    /\ swapChain = VK_NULL_HANDLE
    /\ imageCount = 0
    /\ buffers = <<>>
    /\ liveChains = {}
    /\ liveViews = {}
    /\ chainsCreated = 0
    /\ createCalls = 0
    /\ entryHandle = VK_NULL_HANDLE
    /\ createLog = <<>>
    /\ waitFences = [i \in Slots |-> "none"]
    /\ presentCompleteSemaphores = [i \in Slots |-> FALSE]
    /\ renderCompleteSemaphores = [i \in Slots |-> FALSE]
    /\ currentFrame = 0
    /\ currentBuffer = 0
    /\ frameNo = 0
    /\ frameLog = <<>>
    /\ gpuQueue = <<>>
    /\ presentQueue = <<>>
    /\ gpuDone = {}
    /\ submitted = {}
    /\ presented = {}
    /\ slotUses = [i \in Slots |-> 0]

\* No surface has been queried before create() runs
NoSel == [phase |-> "none"]

\* ------------------------------------------------------- startup: stages
\* Longest list vkEnumeratePhysicalDevices reports
MaxDevices == 2

\* One stage of startup and whether it completed
St(stage, ok) == [stage |-> stage, ok |-> ok]

\* What matters of a physical device: it has a queue family for each requested
\* capability, it supports VK_KHR_swapchain, it can present to the surface
DeviceKinds == [queues : BOOLEAN, exts : BOOLEAN, present : BOOLEAN]

DeviceLists == UNION { [1 .. k -> DeviceKinds] : k \in 0 .. MaxDevices }

\* physicalDevices[0], as an index into the 1-based list
SelectedDevice(devs) == 1

\* Before initVulkan() is called
FreshBoot(devs) ==
    [pc |-> "initVulkan", log |-> <<>>, devices |-> devs, selected |-> 0,
     deviceRes |-> "none", vulkanDevice |-> FALSE, connected |-> FALSE,
     window |-> FALSE, surfaceBound |-> FALSE, initResult |-> "none"]

\* After a startup in which every call up to the swap-chain stage succeeded on a
\* single device: the example stands before prepare(), tinyrhi's initVulkan()
\* before its call of createSwapChain()
ReadyBoot ==
    IF impl = "example"
    THEN [pc |-> "prepare",
          log |-> <<St("instance", TRUE), St("physicalDevice", TRUE),
                    St("logicalDevice", TRUE), St("window", TRUE)>>,
          devices |-> <<[queues |-> TRUE, exts |-> TRUE, present |-> TRUE]>>,
          selected |-> 1, deviceRes |-> VK_SUCCESS, vulkanDevice |-> FALSE,
          connected |-> FALSE, window |-> TRUE, surfaceBound |-> FALSE,
          initResult |-> "true"]
    ELSE [pc |-> "createSwapChain",
          log |-> <<St("instance", TRUE), St("physicalDevice", TRUE),
                    St("logicalDevice", TRUE), St("queue", TRUE),
                    St("connect", TRUE), St("window", TRUE)>>,
          devices |-> <<[queues |-> TRUE, exts |-> TRUE, present |-> TRUE]>>,
          selected |-> 1, deviceRes |-> VK_SUCCESS, vulkanDevice |-> TRUE,
          connected |-> TRUE, window |-> TRUE, surfaceBound |-> FALSE,
          initResult |-> "none"]

\* No device-creation call is under way
NoDev == [phase |-> "none"]

\* No instance-creation call is under way
NoInst == [phase |-> "none"]

Init == InitCore /\ sel = NoSel /\ boot = ReadyBoot /\ teardownLog = <<>> /\ dev = NoDev
        /\ inst = NoInst

\* --------------------------------------------------------------- startup
\* Fence created without VK_FENCE_CREATE_SIGNALED_BIT
FenceCreateState_Unsignaled == "unsignaled"

\* State in which vkCreateFence leaves a fence created with these flags
FenceCreateState == "signaled"

\* createSynchronizationPrimitives(): two semaphores and one fence per slot
createSynchronizationPrimitives ==
    /\ waitFences' = [i \in Slots |-> FenceCreateState]
    /\ presentCompleteSemaphores' = [i \in Slots |-> FALSE]
    /\ renderCompleteSemaphores' = [i \in Slots |-> FALSE]

\* TRUE when the create() call that returned r obtained a chain
Created(r) ==
    \E i \in 1 .. Len(r.log) :
        r.log[i].op = "vkCreateSwapchainKHR" /\ r.log[i].res = VK_SUCCESS

\* Stages prepare() runs once initSurface() has returned
PrepareStages(r) ==
    <<St("surface", TRUE), St("swapChain", Created(r))>> \o
    (IF r.outcome = "ok" THEN <<St("sync", TRUE), St("commandBuffers", TRUE)>> ELSE <<>>)

\* VulkanSwapChain::initSurface of the example.  connect() is never called, so
\* the queries go to the object's null physicalDevice: the call either crashes
\* or behaves as if the selected device had been connected; in that case it
\* throws when the device has no queue that does graphics and present.
InitSurfaceOutcomes_example ==
    {"crash"} \cup
    (IF boot.selected = 0 THEN {}
     ELSE IF boot.devices[boot.selected].queues /\ boot.devices[boot.selected].present
          THEN {"ok"} ELSE {"thrown"})

\* VulkanSwapChain::initSurface of tinyrhi: returns early, leaving the surface
\* unset, when glfwCreateWindowSurface fails; a null window pointer is
\* dereferenced by the library or rejected; with a surface it prints a message
\* and returns, leaving queueNodeIndex unset, when the device has no graphics
\* or no presenting queue
InitSurfaceOutcomes_tinyrhi ==
    IF ~boot.window THEN {"early", "crash"}
    ELSE {"early"} \cup (IF boot.selected # 0 /\ boot.devices[boot.selected].present
                         THEN {"ok"} ELSE {"noQueue"})

\* DeviceManager_Vulkan::prepare(): initSurface, create, ...,
\* createSynchronizationPrimitives, createCommandBuffers, createVertexBuffer
prepare ==
    /\ impl = "example"
    /\ appState = "constructed"
    /\ boot.pc = "prepare"
    /\ \E so \in InitSurfaceOutcomes_example :
         IF so # "ok"
         THEN /\ appState' = (IF so = "crash" THEN "crashed" ELSE "thrown")
              /\ boot' = [boot EXCEPT !.pc = "done",
                                      !.log = @ \o <<St("surface", FALSE)>>]
              /\ UNCHANGED <<chainVars, syncVars>>
         ELSE \E in \in CreateInputs :
              LET r == create(in) IN
              /\ CreateEffect(r)
              /\ appState' = AfterCreate(r)
              /\ boot' = [boot EXCEPT !.pc = IF r.outcome = "ok" THEN "renderLoop" ELSE "done",
                                      !.surfaceBound = TRUE,
                                      !.log = @ \o PrepareStages(r)]
              /\ IF r.outcome = "ok"
                 THEN createSynchronizationPrimitives
                 ELSE UNCHANGED syncVars
    /\ UNCHANGED <<inst, dev, sel, teardownLog, impl, ndebug, frameVars, gpuVars>>

\* tinyrhi::vulkan::createSwapChain(): initSurface, create; afterwards
\* initVulkan() returns true
createSwapChain ==
    /\ impl = "tinyrhi"
    /\ appState = "constructed"
    /\ boot.pc = "createSwapChain"
    /\ \E so \in InitSurfaceOutcomes_tinyrhi :
         IF so = "crash"
         THEN /\ appState' = "crashed"
              /\ boot' = [boot EXCEPT !.pc = "done",
                                      !.log = @ \o <<St("surface", FALSE)>>]
              /\ UNCHANGED chainVars
         ELSE \E in \in CreateInputs :
              LET r == create(in) IN
              /\ CreateEffect(r)
              /\ appState' = AfterCreate(r)
              /\ boot' = [boot EXCEPT !.pc = "done",
                                      !.surfaceBound = (so \in {"ok", "noQueue"}),
                                      !.initResult = IF r.outcome = "ok" THEN "true" ELSE @,
                                      !.log = @ \o <<St("surface", so = "ok"),
                                                     St("swapChain", Created(r))>>]
    /\ UNCHANGED <<inst, dev, sel, teardownLog, impl, ndebug, syncVars, frameVars, gpuVars>>

\* Recreation, triggered from outside (resize): create() on the same object
Recreate ==
    /\ appState = "prepared"
    /\ createCalls < MaxCreates
    /\ \E in \in CreateInputs :
         LET r == create(in) IN
         /\ CreateEffect(r)
         /\ appState' = AfterCreate(r)
    /\ UNCHANGED <<extVars, impl, ndebug, syncVars, frameVars, gpuVars>>


\* ------------------------------------------- DeviceManager_Vulkan::render
AcquireResults == {VK_SUCCESS, VK_SUBOPTIMAL_KHR, VK_ERROR_OUT_OF_DATE_KHR, VK_ERROR}
PresentResults == {VK_SUCCESS, VK_SUBOPTIMAL_KHR, VK_ERROR_OUT_OF_DATE_KHR, VK_ERROR}

\* Present issued with waitSemaphoreCount = 0
PresentWaitSemaphore_NoWait(slot) == NoSlot

\* Slot of the semaphore presentInfo.pWaitSemaphores names (NoSlot: none)
PresentWaitSemaphore(slot) == slot

\* Slot of the semaphore submitInfo.pSignalSemaphores names
SubmitSignalSemaphore(slot) == slot

\* Value of currentFrame when render() returns
SlotAfterFrame(slot) == slot

\* Calls render() makes after vkAcquireNextImageKHR returned ares without
\* throwing: the two branches on the acquire result are empty or throw.
FrameBody(ares, sres, pres) ==
    <<FEv("vkResetFences", currentFrame, NoSlot, NoSlot, NoSlot, VK_NULL_HANDLE, VK_SUCCESS),
      FEv("record", NoSlot, NoSlot, NoSlot, currentBuffer, swapChain, VK_SUCCESS),
      FEv("vkQueueSubmit", currentFrame, currentFrame,
          SubmitSignalSemaphore(currentFrame), currentBuffer, VK_NULL_HANDLE, sres),
      FEv("vkQueuePresentKHR", NoSlot, PresentWaitSemaphore(currentFrame), NoSlot,
          NoSlot, swapChain, pres)>>

RenderInputs ==
    {in \in [wres : {VK_SUCCESS, VK_ERROR}, ares : AcquireResults,
             sres : {VK_SUCCESS, VK_ERROR}, pres : PresentResults] :
        \* vkWaitForFences with timeout UINT64_MAX returns VK_SUCCESS only
        \* once the fence is signaled
        /\ in.wres = VK_SUCCESS => waitFences[currentFrame] = "signaled"
        \* nothing after a throwing acquire is executed
        /\ in.ares = VK_ERROR => in.sres = VK_SUCCESS /\ in.pres = VK_SUCCESS}

render ==
    /\ impl = "example"
    /\ appState = "prepared"
    /\ frameNo < MaxFrames
    /\ \E in \in RenderInputs :
         LET f == frameNo + 1
             slot == currentFrame
             evWait == FEv("vkWaitForFences", slot, NoSlot, NoSlot, NoSlot,
                           VK_NULL_HANDLE, in.wres)
             evAcquire == FEv("vkAcquireNextImageKHR", NoSlot, NoSlot, slot, NoSlot,
                              swapChain, in.ares)
             acquired == in.ares \in {VK_SUCCESS, VK_SUBOPTIMAL_KHR}
             presentWait == PresentWaitSemaphore(slot)
         IN
         /\ frameNo' = f
         /\ slotUses' = [slotUses EXCEPT ![slot] = @ + 1]
         /\ IF in.ares = VK_ERROR
            THEN \* throw std::runtime_error("Could not acquire ...")
                 /\ frameLog' = <<evWait, evAcquire>>
                 /\ appState' = "thrown"
                 /\ UNCHANGED <<syncVars, currentFrame, currentBuffer, submitted,
                                gpuQueue, presentQueue>>
            ELSE /\ frameLog' = <<evWait, evAcquire>> \o FrameBody(in.ares, in.sres, in.pres)
                 /\ waitFences' = [waitFences EXCEPT ![slot] = "unsignaled"]
                 /\ presentCompleteSemaphores' =
                        IF acquired
                        THEN [presentCompleteSemaphores EXCEPT ![slot] = TRUE]
                        ELSE presentCompleteSemaphores
                 /\ UNCHANGED renderCompleteSemaphores
                 /\ IF in.sres = VK_SUCCESS
                    THEN /\ gpuQueue' = Append(gpuQueue,
                                [frame |-> f, wait |-> slot,
                                 signal |-> SubmitSignalSemaphore(slot),
                                 fence |-> slot, cb |-> currentBuffer])
                         /\ submitted' = submitted \cup {f}
                    ELSE UNCHANGED <<gpuQueue, submitted>>
                 /\ IF in.pres = VK_ERROR
                    THEN \* throw std::runtime_error("Could not present ...")
                         /\ appState' = "thrown"
                         /\ UNCHANGED presentQueue
                    ELSE /\ appState' = appState
                         /\ presentQueue' = Append(presentQueue,
                                [frame |-> f,
                                 waits |-> IF presentWait = NoSlot THEN {} ELSE {presentWait},
                                 show |-> in.pres # VK_ERROR_OUT_OF_DATE_KHR])
                 /\ currentFrame' = SlotAfterFrame(slot)
                 /\ currentBuffer' = currentBuffer
    /\ UNCHANGED <<extVars, impl, ndebug, chainVars, gpuDone, presented>>

\* ------------------------------------------------- GPU and presentation
\* The graphics queue executes the oldest submission once its wait semaphore
\* is signaled; completion signals the signal semaphore and the fence.
GpuExecute ==
    /\ Len(gpuQueue) > 0
    /\ LET s == Head(gpuQueue) IN
       /\ presentCompleteSemaphores[s.wait]
       /\ presentCompleteSemaphores' = [presentCompleteSemaphores EXCEPT ![s.wait] = FALSE]
       /\ renderCompleteSemaphores' = [renderCompleteSemaphores EXCEPT ![s.signal] = TRUE]
       /\ waitFences' = [waitFences EXCEPT ![s.fence] = "signaled"]
       /\ gpuDone' = gpuDone \cup {s.frame}
       /\ gpuQueue' = Tail(gpuQueue)
    /\ UNCHANGED <<extVars, impl, ndebug, appState, chainVars, frameVars, presentQueue, presented>>

\* The presentation engine processes the oldest present request once every
\* semaphore it waits on is signaled, and consumes those signals.
PresentEngine ==
    /\ Len(presentQueue) > 0
    /\ LET p == Head(presentQueue) IN
       /\ \A w \in p.waits : renderCompleteSemaphores[w]
       /\ renderCompleteSemaphores' =
              [i \in Slots |-> IF i \in p.waits THEN FALSE ELSE renderCompleteSemaphores[i]]
       /\ presented' = IF p.show THEN presented \cup {p.frame} ELSE presented
       /\ presentQueue' = Tail(presentQueue)
    /\ UNCHANGED <<extVars, impl, ndebug, appState, chainVars, frameVars, gpuQueue, gpuDone,
                   waitFences, presentCompleteSemaphores>>

\* The example program: prepare(), then frames, with the GPU and the
\* presentation engine running beside it.
InitExample == Init /\ impl = "example"

Next ==
    \/ prepare
    \/ render
    \/ GpuExecute
    \/ PresentEngine

Spec == InitExample /\ [][Next]_vars

\* The frame loop with a GPU and a presentation engine that do not stop while
\* they have work they can do
SpecFair == InitExample /\ [][Next]_vars /\ WF_vars(GpuExecute) /\ WF_vars(PresentEngine)
\* The swap-chain object of either implementation, created once by its owner
\* and recreated on outside triggers.
NextChain ==
    \/ prepare
    \/ createSwapChain
    \/ Recreate

SpecChain == Init /\ [][NextChain]_vars

TypeOK ==
    /\ appState \in {"constructed", "prepared", "crashed", "aborted", "thrown"}
    /\ currentFrame \in Slots
    /\ frameNo \in 0 .. MaxFrames
    /\ createCalls \in 0 .. MaxCreates


\* ------------------------------------------------------ reading the logs
FrameIdx(op) == {i \in 1 .. Len(frameLog) : frameLog[i].op = op}
CreateIdx(op) == {i \in 1 .. Len(createLog) : createLog[i].op = op}

AcquireReported(res) ==
    \E i \in FrameIdx("vkAcquireNextImageKHR") : frameLog[i].res = res
PresentReported(res) ==
    \E i \in FrameIdx("vkQueuePresentKHR") : frameLog[i].res = res

\* ------------------------------------------------------------------ claims

\* C1: when vkAcquireNextImageKHR reports OUT_OF_DATE, create() is called
\* before any command recording, queue submit or present of that frame.
C1_RecreateBeforeUsingChain ==
    \A i \in FrameIdx("vkAcquireNextImageKHR") :
        frameLog[i].res = VK_ERROR_OUT_OF_DATE_KHR =>
            \A j \in FrameIdx("record") \cup FrameIdx("vkQueueSubmit")
                     \cup FrameIdx("vkQueuePresentKHR") :
                j > i => \E k \in FrameIdx("create") : i < k /\ k < j

\* C2: one OUT_OF_DATE acquire makes the frame call create() exactly once
\* and the frame function returns without throwing.
C2_ExactlyOneRecreate ==
    AcquireReported(VK_ERROR_OUT_OF_DATE_KHR) =>
        /\ Cardinality(FrameIdx("create")) = 1
        /\ appState # "thrown"

\* C3: after a frame whose vkQueueSubmit succeeded on slot s, currentFrame
\* is (s + 1) mod MAX_CONCURRENT_FRAMES.
C3_SlotAdvances ==
    \A i \in FrameIdx("vkQueueSubmit") :
        frameLog[i].res = VK_SUCCESS =>
            currentFrame = (frameLog[i].fence + 1) % MAX_CONCURRENT_FRAMES

C5_ResetOnlyAfterSuccessfulWait ==
    \A j \in FrameIdx("vkResetFences") :
        \E i \in FrameIdx("vkWaitForFences") :
            /\ i < j
            /\ frameLog[i].fence = frameLog[j].fence
            /\ frameLog[i].res = VK_SUCCESS

\* C6: a slot no frame has used yet has a signaled fence once prepare() has
\* run, and no frame runs before the fences exist.
C6_FenceSignaledAtFirstUse ==
    /\ \A i \in Slots :
          (appState \in {"prepared", "thrown"} /\ slotUses[i] = 0)
              => waitFences[i] = "signaled"
    /\ frameNo > 0 => \A i \in Slots : waitFences[i] # "none"

C6_Witness ==
    /\ frameNo = 1
    /\ slotUses[0] = 1
    /\ submitted = {}
    /\ \E i \in FrameIdx("vkWaitForFences") : frameLog[i].res = VK_SUCCESS

\* C7: at most MAX_CONCURRENT_FRAMES submitted frames are pending on the GPU.
C7_InFlightBounded == Len(gpuQueue) <= MAX_CONCURRENT_FRAMES

\* C8: when present reports SUBOPTIMAL or OUT_OF_DATE, or acquire reported
\* SUBOPTIMAL, the frame is presented and create() is called after the present.
C8_RecreateAfterPresent ==
    (\/ PresentReported(VK_SUBOPTIMAL_KHR)
     \/ PresentReported(VK_ERROR_OUT_OF_DATE_KHR)
     \/ AcquireReported(VK_SUBOPTIMAL_KHR))
        => \E j \in FrameIdx("vkQueuePresentKHR") :
               \E k \in FrameIdx("create") : j < k

\* C9: on recreation every view of the old chain is destroyed before the old
\* chain handle, and both only after vkCreateSwapchainKHR has produced the
\* new handle.
C9_OldDestroyedAfterNewExists ==
    entryHandle # VK_NULL_HANDLE =>
        /\ \A j \in CreateIdx("vkDestroyImageView") \cup CreateIdx("vkDestroySwapchainKHR") :
              \E c \in CreateIdx("vkCreateSwapchainKHR") :
                  /\ c < j
                  /\ createLog[c].res = VK_SUCCESS
                  /\ createLog[c].h # VK_NULL_HANDLE
        /\ \A i \in CreateIdx("vkDestroyImageView") :
              \A j \in CreateIdx("vkDestroySwapchainKHR") : i < j

\* C33: when vkCreateSwapchainKHR fails during a recreation, no view and no
\* handle of the old chain is destroyed, and the object never holds a handle
\* that has been destroyed.
C33_OldKeptWhenCreationFails ==
    /\ (/\ entryHandle # VK_NULL_HANDLE
        /\ \E c \in CreateIdx("vkCreateSwapchainKHR") : createLog[c].res # VK_SUCCESS)
           => CreateIdx("vkDestroyImageView") \cup CreateIdx("vkDestroySwapchainKHR") = {}
    /\ swapChain # VK_NULL_HANDLE => swapChain \in liveChains
\* buffers.size(): the example declares the vector and never resizes it,
\* tinyrhi resizes it to imageCount before the view loop
BuffersSize == IF impl = "example" THEN 0 ELSE Len(buffers)

\* The last create() returned and its vkCreateSwapchainKHR succeeded
LastCreateSucceeded ==
    /\ appState = "prepared"
    /\ \E c \in CreateIdx("vkCreateSwapchainKHR") : createLog[c].res = VK_SUCCESS

\* C34: after every successful create() the vector buffers has at least
\* imageCount entries, entry i holds the live view of image i of the current
\* chain, the current chain is the only live chain and no other view is live.
C34_OneViewPerImage ==
    LastCreateSucceeded =>
        /\ BuffersSize >= imageCount
        /\ \A i \in 1 .. imageCount :
              i <= Len(buffers) /\ buffers[i] = ViewId(swapChain, i) /\ buffers[i] \in liveViews
        /\ liveChains = {swapChain}
        /\ liveViews = {ViewId(swapChain, i) : i \in 1 .. imageCount}

\* When the out-of-range accesses behave as if the entries existed, the views
\* and the handle of the example are those of the current chain alone
ViewsAndHandleOfCurrentChain ==
    LastCreateSucceeded =>
        /\ \A i \in 1 .. imageCount :
              i <= Len(buffers) /\ buffers[i] = ViewId(swapChain, i) /\ buffers[i] \in liveViews
        /\ liveChains = {swapChain}
        /\ liveViews = {ViewId(swapChain, i) : i \in 1 .. imageCount}
\* C35: under fair GPU progress a fence that render() has reset is signaled
\* again, so the next host wait on its slot returns.
C35_ResetFenceSignaledAgain ==
    \A i \in Slots : (waitFences[i] = "unsignaled") ~> (waitFences[i] = "signaled")

\* No frame so far had an acquire that reported OUT_OF_DATE or a failed submit
AcquiredAndSubmitted ==
    \A j \in 1 .. Len(frameLog) :
        /\ frameLog[j].op = "vkAcquireNextImageKHR" => frameLog[j].res # VK_ERROR_OUT_OF_DATE_KHR
        /\ frameLog[j].op = "vkQueueSubmit" => frameLog[j].res = VK_SUCCESS

\* In runs where every acquire delivers an image and every submit succeeds,
\* each reset fence is signaled again
FenceSignaledInGoodRuns ==
    []AcquiredAndSubmitted => C35_ResetFenceSignaledAgain
\* C36: render() resets and records the command buffer, and writes the
\* uniform buffer, of a slot only when no earlier submission using that
\* command buffer is still pending, and the command-buffer index is the slot
\* whose fence it waited on.
C36_BufferReusedOnlyWhenIdle ==
    \A i \in FrameIdx("record") :
        /\ \A s \in SeqRange(gpuQueue) : s.frame < frameNo => s.cb # frameLog[i].cb
        /\ \A w \in FrameIdx("vkWaitForFences") : frameLog[w].fence = frameLog[i].cb

\* The command-buffer index and the fence slot of a frame are the same
CommandBufferIndexIsFenceSlot ==
    \A i \in FrameIdx("record") :
        \A w \in FrameIdx("vkWaitForFences") : frameLog[w].fence = frameLog[i].cb

\* No fence wait so far returned an error
WaitsSucceeded ==
    \A w \in FrameIdx("vkWaitForFences") : frameLog[w].res = VK_SUCCESS

\* In runs where every fence wait succeeds the buffers are idle when reused
BuffersIdleWhenWaitsSucceed ==
    []WaitsSucceeded => []C36_BufferReusedOnlyWhenIdle
\* C37: in tinyrhi's create(), when every Vulkan call made returned
\* VK_SUCCESS, no assertion failed and create() completed with the new chain
\* and one view per image created.
C37_TinyrhiCreateCompletes ==
    (/\ impl = "tinyrhi"
     /\ createCalls > 0
     /\ \A j \in 1 .. Len(createLog) : createLog[j].res = VK_SUCCESS)
        => /\ appState = "prepared"
           /\ swapChain \in liveChains
           /\ imageCount >= 1
           /\ \A i \in 1 .. imageCount : i <= Len(buffers) /\ buffers[i] \in liveViews
\* C10: every vkCreateSwapchainKHR call carries as oldSwapchain the handle the
\* object held when create() was entered, the null handle on the first call.
C10_OldSwapchainPassed ==
    \A i \in CreateIdx("vkCreateSwapchainKHR") :
        /\ createLog[i].old = entryHandle
        /\ createCalls = 1 => createLog[i].old = VK_NULL_HANDLE

C10_Witness ==
    /\ createCalls >= 2
    /\ \E i \in CreateIdx("vkCreateSwapchainKHR") :
          createLog[i].old # VK_NULL_HANDLE /\ createLog[i].old = entryHandle


\* C11: the first create(), entered with the null handle, destroys no image
\* view and no swap chain.
C11_FirstCreateSkipsTeardown ==
    (createCalls = 1 \/ (createCalls >= 1 /\ entryHandle = VK_NULL_HANDLE)) =>
        /\ CreateIdx("vkDestroyImageView") = {}
        /\ CreateIdx("vkDestroySwapchainKHR") = {}

C11_Witness ==
    /\ createCalls = 1
    /\ entryHandle = VK_NULL_HANDLE
    /\ \E i \in CreateIdx("vkCreateSwapchainKHR") : createLog[i].res = VK_SUCCESS
    /\ CreateIdx("vkDestroySwapchainKHR") = {}

\* C15: when vkCreateSwapchainKHR fails inside create(), startup stops: the
\* stages after create() (synchronization primitives, frames) do not run.
C15_CreateFailureAbortsStartup ==
    (\E i \in CreateIdx("vkCreateSwapchainKHR") : createLog[i].res # VK_SUCCESS) =>
        /\ appState # "prepared"
        /\ \A i \in Slots : waitFences[i] = "none"
        /\ frameNo = 0

\* ------------------------------------------- create(): parameter selection
\* The part of create() that reads the surface report (capabilities and
\* present-mode list) and derives the image count and the present mode it
\* writes into VkSwapchainCreateInfoKHR.

VK_PRESENT_MODE_IMMEDIATE_KHR == 0
VK_PRESENT_MODE_MAILBOX_KHR == 1
VK_PRESENT_MODE_FIFO_KHR == 2

\* Largest minImageCount a modelled surface reports
MaxMinImages == 3
\* Longest present-mode list a modelled surface reports
MaxModes == 3

PresentModeValues ==
    {VK_PRESENT_MODE_IMMEDIATE_KHR, VK_PRESENT_MODE_MAILBOX_KHR, VK_PRESENT_MODE_FIFO_KHR}

\* Lists a surface can report: no mode twice, FIFO always present
PresentModeLists ==
    { l \in UNION { [1 .. k -> PresentModeValues] : k \in 1 .. MaxModes } :
        /\ \A i, j \in 1 .. Len(l) : i # j => l[i] # l[j]
        /\ \E i \in 1 .. Len(l) : l[i] = VK_PRESENT_MODE_FIFO_KHR }

MinImageCounts == 1 .. MaxMinImages
\* 0 means the surface sets no upper limit
MaxImageCounts == 0 .. (MaxMinImages + 1)

\* part_006: for-loop of lines 234-245, from index i with the mode chosen so far
RECURSIVE PresentModeScan_example_NoBreak(_, _, _)
PresentModeScan_example_NoBreak(modes, i, cur) ==
    IF i > Len(modes) THEN cur
    ELSE IF modes[i] = VK_PRESENT_MODE_MAILBOX_KHR
         THEN PresentModeScan_example_NoBreak(modes, i + 1, VK_PRESENT_MODE_MAILBOX_KHR)
         ELSE IF modes[i] = VK_PRESENT_MODE_IMMEDIATE_KHR
              THEN PresentModeScan_example_NoBreak(modes, i + 1, VK_PRESENT_MODE_IMMEDIATE_KHR)
              ELSE PresentModeScan_example_NoBreak(modes, i + 1, cur)

RECURSIVE PresentModeScan_example(_, _, _)
PresentModeScan_example(modes, i, cur) ==
    IF i > Len(modes) THEN cur
    ELSE IF modes[i] = VK_PRESENT_MODE_MAILBOX_KHR
         THEN VK_PRESENT_MODE_MAILBOX_KHR
         ELSE IF modes[i] = VK_PRESENT_MODE_IMMEDIATE_KHR
              THEN PresentModeScan_example(modes, i + 1, VK_PRESENT_MODE_IMMEDIATE_KHR)
              ELSE PresentModeScan_example(modes, i + 1, cur)

\* tinyrhi: for-loop of lines 283-293.  The second test is the assignment
\* presentModes[i] = VK_PRESENT_MODE_IMMEDIATE_KHR: it overwrites the entry and
\* its value, the assigned enumerator, is the condition.
RECURSIVE PresentModeScan_tinyrhi(_, _, _)
PresentModeScan_tinyrhi(modes, i, cur) ==
    IF i > Len(modes) THEN [mode |-> cur, modes |-> modes]
    ELSE IF modes[i] = VK_PRESENT_MODE_MAILBOX_KHR
         THEN [mode |-> VK_PRESENT_MODE_MAILBOX_KHR, modes |-> modes]
         ELSE LET written == [modes EXCEPT ![i] = VK_PRESENT_MODE_IMMEDIATE_KHR]
              IN  IF written[i] # 0
                  THEN PresentModeScan_tinyrhi(written, i + 1, VK_PRESENT_MODE_IMMEDIATE_KHR)
                  ELSE PresentModeScan_tinyrhi(written, i + 1, cur)

\* swapchainPresentMode and the list as the loop leaves it
SelectPresentMode_IgnoreVsync(im, modes, vsync) ==
    IF im = "example"
    THEN [mode  |-> PresentModeScan_example(modes, 1, VK_PRESENT_MODE_FIFO_KHR),
          modes |-> modes]
    ELSE PresentModeScan_tinyrhi(modes, 1, VK_PRESENT_MODE_FIFO_KHR)
SelectPresentMode(im, modes, vsync) ==
    IF vsync THEN [mode |-> VK_PRESENT_MODE_FIFO_KHR, modes |-> modes]
    ELSE IF im = "example"
         THEN [mode  |-> PresentModeScan_example(modes, 1, VK_PRESENT_MODE_FIFO_KHR),
               modes |-> modes]
         ELSE PresentModeScan_tinyrhi(modes, 1, VK_PRESENT_MODE_FIFO_KHR)

\* desiredNumberOfSwapchainImages from the capabilities the code read (uint32_t;
\* the counts modelled stay far below the wrap-around at 2^32)
DesiredImages_example(minCount, maxCount) ==
    LET desired == minCount + 1
    IN  IF maxCount > 0 /\ desired > maxCount THEN maxCount ELSE desired

DesiredImages_tinyrhi(minCount, maxCount) == minCount + 1

SelectImageCount(im, minCount, maxCount) ==
    IF im = "example" THEN DesiredImages_example(minCount, maxCount)
                      ELSE DesiredImages_tinyrhi(minCount, maxCount)

\* What the surface reports and what create() is asked for
SelInputs ==
    [phase : {"reported"}, minImageCount : MinImageCounts, maxImageCount : MaxImageCounts,
     presentModes : PresentModeLists, vsync : BOOLEAN]

\* surfCaps as create() holds it.  tinyrhi queries the capabilities inside
\* assert(): with NDEBUG the query is not made and surfCaps is read
\* uninitialized, so any value may be found there.
CapsRead ==
    IF impl = "tinyrhi" /\ ndebug
    THEN [minImageCount : MinImageCounts, maxImageCount : MaxImageCounts]
    ELSE {[minImageCount |-> sel.minImageCount, maxImageCount |-> sel.maxImageCount]}

SelectSwapchainParameters ==
    /\ sel.phase = "reported"
    /\ \E caps \in CapsRead :
        LET pm == SelectPresentMode(impl, sel.presentModes, sel.vsync)
        IN  sel' = [phase            |-> "selected",
                    minImageCount    |-> sel.minImageCount,
                    maxImageCount    |-> sel.maxImageCount,
                    presentModes     |-> sel.presentModes,
                    vsync            |-> sel.vsync,
                    readMinImageCount |-> caps.minImageCount,
                    readMaxImageCount |-> caps.maxImageCount,
                    ciMinImageCount  |-> SelectImageCount(impl, caps.minImageCount,
                                                          caps.maxImageCount),
                    ciPresentMode    |-> pm.mode,
                    modesAfter       |-> pm.modes]
    /\ UNCHANGED <<impl, ndebug, appState, chainVars, syncVars, frameVars, gpuVars,
                   boot, teardownLog, dev, inst>>

\* C19: the requested image count is minImageCount + 1, reduced to
\* maxImageCount when maxImageCount is nonzero and minImageCount + 1 exceeds it
\* (minImageCount = 2, maxImageCount = 2 gives 2, never 3).
C19_ImageCountClamped ==
    sel.phase = "selected" =>
        sel.ciMinImageCount =
            IF sel.maxImageCount > 0 /\ sel.minImageCount + 1 > sel.maxImageCount
            THEN sel.maxImageCount
            ELSE sel.minImageCount + 1

\* C20: without vsync and with both MAILBOX and IMMEDIATE in the reported list,
\* the selected present mode is MAILBOX, whatever the order of the list.
C20_MailboxPreferred ==
    (/\ sel.phase = "selected"
     /\ ~sel.vsync
     /\ \E i \in 1 .. Len(sel.presentModes) :
            sel.presentModes[i] = VK_PRESENT_MODE_MAILBOX_KHR
     /\ \E i \in 1 .. Len(sel.presentModes) :
            sel.presentModes[i] = VK_PRESENT_MODE_IMMEDIATE_KHR)
        => sel.ciPresentMode = VK_PRESENT_MODE_MAILBOX_KHR

\* IMMEDIATE reported before MAILBOX, tinyrhi implementation
C20_Witness ==
    /\ sel.phase = "selected"
    /\ impl = "tinyrhi"
    /\ ~sel.vsync
    /\ \E i, j \in 1 .. Len(sel.presentModes) :
        /\ i < j
        /\ sel.presentModes[i] = VK_PRESENT_MODE_IMMEDIATE_KHR
        /\ sel.presentModes[j] = VK_PRESENT_MODE_MAILBOX_KHR
    /\ sel.ciPresentMode = VK_PRESENT_MODE_MAILBOX_KHR

\* ------------------------------------------------- startup: initVulkan, main
\* What the driver and the window system answer during initVulkan()
InitVulkanInputs ==
    [instOk : BOOLEAN, enumOk : BOOLEAN, devRes : {VK_SUCCESS, VK_ERROR},
     windowOk : BOOLEAN, ub : {"asif", "crash"}]

\* initVulkan() left at a `return false`
InitFailed(b, stages) ==
    [b EXCEPT !.log = @ \o stages, !.initResult = "false"]

\* DeviceManager_Vulkan::initVulkan(): createInstance, enumeration, selection,
\* createLogicalDevice.  main() does not read the value returned.
initVulkan_example(in) ==
    LET devs == boot.devices
        d == SelectedDevice(devs)
        upToDevice == <<St("instance", TRUE), St("physicalDevice", TRUE)>>
    IN  IF ~in.instOk
        THEN [boot |-> [InitFailed(boot, <<St("instance", FALSE)>>)
                            EXCEPT !.pc = "setupWindow"],
              appState |-> "constructed"]
        ELSE IF Len(devs) = 0 \/ ~in.enumOk
        THEN [boot |-> [InitFailed(boot, <<St("instance", TRUE), St("physicalDevice", FALSE)>>)
                            EXCEPT !.pc = "setupWindow"],
              appState |-> "constructed"]
        ELSE IF ~devs[d].queues
        THEN \* getQueueFamilyIndex throws, nothing catches
             [boot |-> [boot EXCEPT !.pc = "done", !.selected = d,
                                    !.log = @ \o upToDevice \o <<St("logicalDevice", FALSE)>>],
              appState |-> "thrown"]
        ELSE IF in.devRes # VK_SUCCESS
        THEN [boot |-> [InitFailed(boot, upToDevice \o <<St("logicalDevice", FALSE)>>)
                            EXCEPT !.pc = "setupWindow", !.selected = d,
                                   !.deviceRes = in.devRes],
              appState |-> "constructed"]
        ELSE [boot |-> [boot EXCEPT !.pc = "setupWindow", !.selected = d,
                                    !.deviceRes = in.devRes, !.initResult = "true",
                                    !.log = @ \o upToDevice \o <<St("logicalDevice", TRUE)>>],
              appState |-> "constructed"]

\* tinyrhi::vulkan::initVulkan() up to its call of createSwapChain(): instance,
\* enumeration, selection, new VulkanDevice, vkGetDeviceQueue, swapChain.set,
\* createWindow.  The VulkanDevice constructor returns silently when
\* vkCreateDevice fails and leaves logicalDevice uninitialized; the value
\* createWindow() returns is not read.
initVulkan_tinyrhi(in) ==
    LET devs == boot.devices
        d == SelectedDevice(devs)
        upToDevice == <<St("instance", TRUE), St("physicalDevice", TRUE)>>
        devOk == in.devRes = VK_SUCCESS
    IN  IF ~in.instOk
        THEN [boot |-> [InitFailed(boot, <<St("instance", FALSE)>>) EXCEPT !.pc = "done"],
              appState |-> "constructed"]
        ELSE IF Len(devs) = 0 \/ ~in.enumOk
        THEN [boot |-> [InitFailed(boot, <<St("instance", TRUE), St("physicalDevice", FALSE)>>)
                            EXCEPT !.pc = "done"],
              appState |-> "constructed"]
        ELSE IF ~devs[d].queues
        THEN [boot |-> [boot EXCEPT !.pc = "done", !.selected = d,
                                    !.log = @ \o upToDevice \o <<St("logicalDevice", FALSE)>>],
              appState |-> "thrown"]
        ELSE IF ~devOk /\ in.ub = "crash"
        THEN \* vkGetDeviceQueue on the uninitialized logicalDevice
             [boot |-> [boot EXCEPT !.pc = "done", !.selected = d,
                                    !.deviceRes = in.devRes, !.vulkanDevice = TRUE,
                                    !.log = @ \o upToDevice \o
                                            <<St("logicalDevice", FALSE), St("queue", FALSE)>>],
              appState |-> "crashed"]
        ELSE [boot |-> [boot EXCEPT !.pc = "createSwapChain", !.selected = d,
                                    !.deviceRes = in.devRes, !.vulkanDevice = TRUE,
                                    !.connected = TRUE, !.window = in.windowOk,
                                    !.log = @ \o upToDevice \o
                                            <<St("logicalDevice", devOk), St("queue", TRUE),
                                              St("connect", TRUE), St("window", in.windowOk)>>],
              appState |-> "constructed"]

initVulkan ==
    /\ boot.pc = "initVulkan"
    /\ appState = "constructed"
    /\ \E in \in InitVulkanInputs :
        LET r == IF impl = "example" THEN initVulkan_example(in)
                                     ELSE initVulkan_tinyrhi(in)
        IN  /\ boot' = r.boot
            /\ appState' = r.appState
    /\ UNCHANGED <<inst, dev, sel, teardownLog, impl, ndebug, chainVars, syncVars, frameVars, gpuVars>>

InstanceCreated ==
    \E i \in 1 .. Len(boot.log) : boot.log[i] = St("instance", TRUE)

\* DeviceManager_Vulkan::setupWindow(): throws when glfwCreateWindowSurface
\* fails, as it does for an instance that was never created
setupWindow ==
    /\ impl = "example"
    /\ boot.pc = "setupWindow"
    /\ appState = "constructed"
    /\ \E surfOk \in (IF InstanceCreated THEN BOOLEAN ELSE {FALSE}) :
        IF surfOk
        THEN /\ boot' = [boot EXCEPT !.pc = "prepare", !.window = TRUE,
                                     !.log = @ \o <<St("window", TRUE)>>]
             /\ appState' = appState
        ELSE /\ boot' = [boot EXCEPT !.pc = "done",
                                     !.log = @ \o <<St("window", FALSE)>>]
             /\ appState' = "thrown"
    /\ UNCHANGED <<inst, dev, sel, teardownLog, impl, ndebug, chainVars, syncVars, frameVars, gpuVars>>

\* tinyrhi::vulkan::destroySwapChain(): vkDeviceWaitIdle when vulkanDevice is
\* set, vkDestroySwapchainKHR when the object holds a handle.  Nothing else is
\* destroyed and the handle is not reset.
destroySwapChain ==
    /\ impl = "tinyrhi"
    /\ appState \in {"constructed", "prepared"}
    /\ \E wres \in {VK_SUCCESS, VK_ERROR}, ub \in {"asif", "crash"} :
        LET hasChain == swapChain # VK_NULL_HANDLE
            evWait == IF boot.vulkanDevice
                      THEN <<CEv("vkDeviceWaitIdle", VK_NULL_HANDLE, VK_NULL_HANDLE, wres)>>
                      ELSE <<>>
            evDestroy == IF hasChain
                         THEN <<CEv("vkDestroySwapchainKHR", swapChain, VK_NULL_HANDLE,
                                    VK_SUCCESS)>>
                         ELSE <<>>
            \* *vulkanDevice with vulkanDevice null
            nullDeref == hasChain /\ ~boot.vulkanDevice /\ ub = "crash"
        IN  /\ teardownLog' = <<CEv("destroySwapChain", swapChain, VK_NULL_HANDLE, VK_SUCCESS)>>
                               \o evWait \o (IF nullDeref THEN <<>> ELSE evDestroy)
            /\ appState' = IF nullDeref THEN "crashed" ELSE appState
            /\ liveChains' = IF hasChain /\ ~nullDeref THEN liveChains \ {swapChain}
                             ELSE liveChains
    /\ UNCHANGED <<inst, dev, sel, boot, impl, ndebug, swapChain, imageCount, buffers, liveViews,
                   chainsCreated, createCalls, entryHandle, createLog,
                   syncVars, frameVars, gpuVars>>

InitStartup ==
    /\ InitCore
    /\ sel = NoSel
    /\ teardownLog = <<>>
    /\ dev = NoDev
    /\ inst = NoInst
    /\ boot \in {FreshBoot(devs) : devs \in DeviceLists}

NextStartup ==
    \/ initVulkan
    \/ setupWindow
    \/ prepare
    \/ createSwapChain
    \/ destroySwapChain

SpecStartup == InitStartup /\ [][NextStartup]_vars

\* Position of the last event of a stage in the startup log (0: never run)
StageAt(stage) ==
    LET at == {i \in 1 .. Len(boot.log) : boot.log[i].stage = stage}
    IN  IF at = {} THEN 0 ELSE CHOOSE i \in at : \A j \in at : j <= i

\* tinyrhi never holds a swap-chain handle or a live image view while it runs:
\* the debug build aborts inside create() when the chain is created, the
\* NDEBUG build never makes the creating calls.
TinyrhiHoldsNoChain ==
    (impl = "tinyrhi" /\ appState # "aborted") =>
        /\ swapChain = VK_NULL_HANDLE
        /\ liveChains = {}
        /\ liveViews = {}

\* No destroySwapChain() call reaches vkDestroySwapchainKHR: the object never
\* holds a handle when it runs.
TeardownDestroysNothing ==
    \A i \in 1 .. Len(teardownLog) : teardownLog[i].op # "vkDestroySwapchainKHR"

\* C12: create() is invoked only on a swap chain that was bound to instance,
\* physical device and logical device (connect/set) and to a surface
\* (initSurface): Unbound -> Bound -> Created, never Unbound -> Created.
C12_CreateOnlyWhenBound ==
    createCalls >= 1 => (boot.connected /\ boot.surfaceBound)

\* The window or its surface could not be created, or initSurface found no
\* graphics or present queue
WindowSurfaceOrQueueMissing ==
    \E i \in 1 .. Len(boot.log) :
        boot.log[i] \in {St("window", FALSE), St("surface", FALSE)}

\* C40: when window or surface creation fails, or initSurface finds no queue,
\* create() is never called and startup ends reporting failure (a false
\* result or an exception).
C40_NoChainWithoutSurfaceOrQueue ==
    WindowSurfaceOrQueueMissing =>
        /\ createCalls = 0
        /\ boot.pc = "done" => (boot.initResult = "false" \/ appState = "thrown")

\* The example stops with an exception before create() when its window
\* surface is missing or initSurface finds no queue
ExampleThrowsWithoutSurfaceOrQueue ==
    impl = "example" /\ WindowSurfaceOrQueueMissing /\ appState # "crashed"
        => createCalls = 0 /\ appState = "thrown"
\* C16: startup runs instance, physical device, logical device, surface
\* binding, swap chain, synchronization primitives, command buffers in this
\* order, and no stage starts before its predecessor has completed.
C16_StagesInOrder ==
    LET StageOrder == <<"instance", "physicalDevice", "logicalDevice", "surface",
                        "swapChain", "sync", "commandBuffers">>
    IN  \A k \in 1 .. Len(boot.log) : \A p \in 2 .. Len(StageOrder) :
            boot.log[k].stage = StageOrder[p] =>
                \E j \in 1 .. (k - 1) : boot.log[j] = St(StageOrder[p - 1], TRUE)

\* C17: when vkCreateDevice fails, initialization reports failure and no later
\* stage (queue retrieval, command pool, surface binding, swap-chain creation,
\* frame loop) is executed.
C17_DeviceFailureAbortsStartup ==
    (boot.deviceRes # "none" /\ boot.deviceRes # VK_SUCCESS) =>
        /\ boot.initResult = "false"
        /\ StageAt("logicalDevice") = Len(boot.log)
        /\ createCalls = 0
        /\ frameNo = 0

\* C18: the physical device selected is the first enumerated device that has a
\* queue family for each requested capability, supports the required
\* extensions and can present; devices failing a condition are skipped.
C18_FirstSuitableDeviceSelected ==
    LET Suitable(d) == d.queues /\ d.exts /\ d.present
    IN  boot.selected # 0 =>
            /\ Suitable(boot.devices[boot.selected])
            /\ \A j \in 1 .. (boot.selected - 1) : ~Suitable(boot.devices[j])

\* C21: without vsync and with IMMEDIATE but not MAILBOX in the reported list,
\* the selected present mode is IMMEDIATE, and the scan leaves the list as the
\* surface reported it.
C21_ImmediateFallback ==
    (/\ sel.phase = "selected"
     /\ ~sel.vsync
     /\ \E i \in 1 .. Len(sel.presentModes) :
            sel.presentModes[i] = VK_PRESENT_MODE_IMMEDIATE_KHR
     /\ \A i \in 1 .. Len(sel.presentModes) :
            sel.presentModes[i] # VK_PRESENT_MODE_MAILBOX_KHR)
        => /\ sel.ciPresentMode = VK_PRESENT_MODE_IMMEDIATE_KHR
           /\ sel.modesAfter = sel.presentModes

\* C22: the selected present mode is FIFO when the list holds only FIFO,
\* whatever vsync is, and when vsync is requested, whatever the list holds.
C22_FifoWhenOnlyFifoOrVsync ==
    (/\ sel.phase = "selected"
     /\ \/ sel.vsync
        \/ \A i \in 1 .. Len(sel.presentModes) :
               sel.presentModes[i] = VK_PRESENT_MODE_FIFO_KHR)
        => sel.ciPresentMode = VK_PRESENT_MODE_FIFO_KHR

\* vsync requested while the surface offers MAILBOX
C22_Witness ==
    /\ sel.phase = "selected"
    /\ sel.vsync
    /\ \E i \in 1 .. Len(sel.presentModes) :
           sel.presentModes[i] = VK_PRESENT_MODE_MAILBOX_KHR
    /\ sel.ciPresentMode = VK_PRESENT_MODE_FIFO_KHR

\* ------------------------------------------------- create(): swap extent
\* Largest width or height a modelled surface or caller names
MaxDim == 2

\* (uint32_t)-1, the all-ones value, written as its signed reading
ExtentSentinel == 0 - 1

Dims == 1 .. MaxDim

Extents == [width : Dims, height : Dims]

\* currentExtent of a surface that lets the swap chain decide its size
SentinelExtent == [width |-> ExtentSentinel, height |-> ExtentSentinel]

\* surfCaps.currentExtent and the caller's *width, *height
ExtentInputs ==
    [phase : {"extentReported"}, currentExtent : Extents \cup {SentinelExtent},
     width : Dims, height : Dims]

\* Lines 208-222 / 259-273: swapchainExtent and the values left in *width, *height
ResolveExtent(cur, w, h) ==
    IF cur.width = ExtentSentinel
    THEN [extent |-> [width |-> w, height |-> h], width |-> w, height |-> h]
    ELSE [extent |-> cur, width |-> cur.width, height |-> cur.height]

\* surfCaps.currentExtent as create() holds it (uninitialized in tinyrhi built
\* with NDEBUG, where the capabilities query inside assert() is not made)
ExtentRead ==
    IF impl = "tinyrhi" /\ ndebug
    THEN Extents \cup {SentinelExtent}
    ELSE {sel.currentExtent}

ResolveSwapExtent ==
    /\ sel.phase = "extentReported"
    /\ \E cur \in ExtentRead :
        LET r == ResolveExtent(cur, sel.width, sel.height)
        IN  sel' = [phase         |-> "extentResolved",
                    currentExtent |-> sel.currentExtent,
                    width         |-> sel.width,
                    height        |-> sel.height,
                    readExtent    |-> cur,
                    ciImageExtent |-> r.extent,
                    outWidth      |-> r.width,
                    outHeight     |-> r.height]
    /\ UNCHANGED <<impl, ndebug, appState, chainVars, syncVars, frameVars, gpuVars,
                   boot, teardownLog, dev, inst>>

\* C23: when the surface reports the sentinel extent, the swap extent is the
\* caller's width and height, and the caller's variables keep their values.
C23_SentinelUsesCallerExtent ==
    (sel.phase = "extentResolved" /\ sel.currentExtent = SentinelExtent) =>
        /\ sel.ciImageExtent = [width |-> sel.width, height |-> sel.height]
        /\ sel.outWidth = sel.width
        /\ sel.outHeight = sel.height

\* C24: when the surface reports a concrete currentExtent, the swap extent is
\* currentExtent whatever the caller asked for, and the caller's width and
\* height are overwritten with it.
C24_ConcreteExtentWins ==
    (sel.phase = "extentResolved" /\ sel.currentExtent # SentinelExtent) =>
        /\ sel.ciImageExtent = sel.currentExtent
        /\ sel.outWidth = sel.currentExtent.width
        /\ sel.outHeight = sel.currentExtent.height

\* --------------------------------------------- initSurface(): surface format
\* Longest format list a modelled surface reports
MaxFormats == 3

\* preferredImageFormats
PreferredImageFormats ==
    {"VK_FORMAT_B8G8R8A8_UNORM", "VK_FORMAT_R8G8B8A8_UNORM",
     "VK_FORMAT_A8B8G8R8_UNORM_PACK32"}

\* VkSurfaceFormatKHR entries a surface may report
SurfaceFormats ==
    [format : PreferredImageFormats \cup {"VK_FORMAT_B8G8R8A8_SRGB",
                                          "VK_FORMAT_R5G6B5_UNORM_PACK16"},
     colorSpace : {"VK_COLOR_SPACE_SRGB_NONLINEAR_KHR", "VK_COLOR_SPACE_HDR10_ST2084_EXT"}]

FormatInputs ==
    [phase : {"formatsReported"},
     surfaceFormats : UNION { [1 .. k -> SurfaceFormats] : k \in 1 .. MaxFormats }]

\* The scan without its break: the last preferred entry wins
RECURSIVE FormatScan_NoBreak(_, _, _)
FormatScan_NoBreak(formats, i, cur) ==
    IF i > Len(formats) THEN cur
    ELSE IF formats[i].format \in PreferredImageFormats
         THEN FormatScan_NoBreak(formats, i + 1, formats[i])
         ELSE FormatScan_NoBreak(formats, i + 1, cur)

\* for (auto& availableFormat : surfaceFormats), from entry i on
RECURSIVE FormatScan(_, _, _)
FormatScan(formats, i, cur) ==
    IF i > Len(formats) THEN cur
    ELSE IF formats[i].format \in PreferredImageFormats
         THEN formats[i]
         ELSE FormatScan(formats, i + 1, cur)

\* selectedFormat, initialised to surfaceFormats[0]
SelectedFormat(formats) == FormatScan(formats, 1, formats[1])

SelectSurfaceFormat ==
    /\ sel.phase = "formatsReported"
    /\ LET f == SelectedFormat(sel.surfaceFormats)
       IN  sel' = [phase          |-> "formatSelected",
                   surfaceFormats |-> sel.surfaceFormats,
                   colorFormat    |-> f.format,
                   colorSpace     |-> f.colorSpace]
    /\ UNCHANGED <<impl, ndebug, appState, chainVars, syncVars, frameVars, gpuVars,
                   boot, teardownLog, dev, inst>>

\* C25: the format chosen is the first reported entry whose format is one of
\* the three preferred ones, or the first reported entry when none is;
\* colorFormat and colorSpace are those of that one entry.
C25_FirstPreferredFormat ==
    sel.phase = "formatSelected" =>
        LET pref == {i \in 1 .. Len(sel.surfaceFormats) :
                        sel.surfaceFormats[i].format \in
                            {"VK_FORMAT_B8G8R8A8_UNORM", "VK_FORMAT_R8G8B8A8_UNORM",
                             "VK_FORMAT_A8B8G8R8_UNORM_PACK32"}}
            want == IF pref = {} THEN 1
                    ELSE CHOOSE i \in pref : \A j \in pref : i <= j
        IN  /\ sel.colorFormat = sel.surfaceFormats[want].format
            /\ sel.colorSpace = sel.surfaceFormats[want].colorSpace

\* A list whose first entry is not preferred and which holds two different
\* preferred entries after it
C25_Witness ==
    /\ sel.phase = "formatSelected"
    /\ Len(sel.surfaceFormats) = 3
    /\ sel.surfaceFormats[1].format \notin PreferredImageFormats
    /\ sel.surfaceFormats[2].format \in PreferredImageFormats
    /\ sel.surfaceFormats[3].format \in PreferredImageFormats
    /\ sel.surfaceFormats[2] # sel.surfaceFormats[3]
    /\ sel.colorFormat = sel.surfaceFormats[2].format
    /\ sel.colorSpace = sel.surfaceFormats[2].colorSpace

\* ------------------------------------------- create(): composite alpha
\* compositeAlphaFlags, in the order the loop tries them
CompositeAlphaFlags ==
    <<"VK_COMPOSITE_ALPHA_OPAQUE_BIT_KHR", "VK_COMPOSITE_ALPHA_PRE_MULTIPLIED_BIT_KHR",
      "VK_COMPOSITE_ALPHA_POST_MULTIPLIED_BIT_KHR", "VK_COMPOSITE_ALPHA_INHERIT_BIT_KHR">>

\* supportedCompositeAlpha as the set of bits that are set
AlphaMasks == SUBSET SeqRange(CompositeAlphaFlags)

AlphaInputs == [phase : {"alphaReported"}, supportedCompositeAlpha : AlphaMasks]

\* for (auto& compositeAlphaFlag : compositeAlphaFlags), from entry i on
RECURSIVE AlphaScan(_, _, _)
AlphaScan(mask, i, cur) ==
    IF i > Len(CompositeAlphaFlags) THEN cur
    ELSE IF CompositeAlphaFlags[i] \in mask
         THEN CompositeAlphaFlags[i]
         ELSE AlphaScan(mask, i + 1, cur)

\* compositeAlpha, initialised to OPAQUE
SelectedCompositeAlpha(mask) == AlphaScan(mask, 1, "VK_COMPOSITE_ALPHA_OPAQUE_BIT_KHR")

\* surfCaps.supportedCompositeAlpha as create() holds it (uninitialized in
\* tinyrhi built with NDEBUG)
AlphaRead ==
    IF impl = "tinyrhi" /\ ndebug THEN AlphaMasks ELSE {sel.supportedCompositeAlpha}

SelectCompositeAlpha ==
    /\ sel.phase = "alphaReported"
    /\ \E mask \in AlphaRead :
        sel' = [phase                   |-> "alphaSelected",
                supportedCompositeAlpha |-> sel.supportedCompositeAlpha,
                readCompositeAlpha      |-> mask,
                ciCompositeAlpha        |-> SelectedCompositeAlpha(mask)]
    /\ UNCHANGED <<impl, ndebug, appState, chainVars, syncVars, frameVars, gpuVars,
                   boot, teardownLog, dev, inst>>

\* C26: the composite alpha selected is the first of OPAQUE, PRE_MULTIPLIED,
\* POST_MULTIPLIED, INHERIT that the surface supports; whenever the surface
\* supports one of the four, the selected value is a supported one.
C26_FirstSupportedCompositeAlpha ==
    (sel.phase = "alphaSelected" /\ sel.supportedCompositeAlpha # {}) =>
        LET order == <<"VK_COMPOSITE_ALPHA_OPAQUE_BIT_KHR",
                       "VK_COMPOSITE_ALPHA_PRE_MULTIPLIED_BIT_KHR",
                       "VK_COMPOSITE_ALPHA_POST_MULTIPLIED_BIT_KHR",
                       "VK_COMPOSITE_ALPHA_INHERIT_BIT_KHR">>
            sup == {i \in 1 .. 4 : order[i] \in sel.supportedCompositeAlpha}
        IN  /\ sel.ciCompositeAlpha \in sel.supportedCompositeAlpha
            /\ sel.ciCompositeAlpha = order[CHOOSE i \in sup : \A j \in sup : i <= j]
\* ------------------------------ specification of the parameter selection
\* Each input is one aspect of the surface report together with what the
\* caller passes; the action of that aspect applies the code to it.
InitSelect == InitCore /\ sel \in SelInputs \cup ExtentInputs \cup FormatInputs \cup AlphaInputs
              /\ boot = ReadyBoot /\ teardownLog = <<>> /\ dev = NoDev /\ inst = NoInst

NextSelect ==
    \/ SelectSwapchainParameters
    \/ ResolveSwapExtent
    \/ SelectSurfaceFormat
    \/ SelectCompositeAlpha

SpecSelect == InitSelect /\ [][NextSelect]_vars

\* ===================================================== queue-family lookup
\* VulkanDevice::getQueueFamilyIndex and DeviceManager_Vulkan::
\* getQueueFamilyIndex are the same function: both scan queueFamilyProperties,
\* the table vkGetPhysicalDeviceQueueFamilyProperties reported.

\* Longest queue-family table
MaxFamilies == 3

VK_QUEUE_GRAPHICS_BIT == "VK_QUEUE_GRAPHICS_BIT"
VK_QUEUE_COMPUTE_BIT == "VK_QUEUE_COMPUTE_BIT"
VK_QUEUE_TRANSFER_BIT == "VK_QUEUE_TRANSFER_BIT"

\* A VkQueueFlags mask is the set of its bits
QueueFlagBits == {VK_QUEUE_GRAPHICS_BIT, VK_QUEUE_COMPUTE_BIT, VK_QUEUE_TRANSFER_BIT}

\* queueFamilyProperties: family i of the code is entry i + 1
FamilyTables == UNION { [1 .. k -> SUBSET QueueFlagBits] : k \in 1 .. MaxFamilies }

\* Masks a caller asks for; every call in the sources passes one bit, and no
\* call passes the empty mask
QueueRequests == (SUBSET QueueFlagBits) \ {{}}

LookupInputs ==
    [phase : {"lookup"}, queueFamilyProperties : FamilyTables, queueFlags : QueueRequests]

\* First loop; leaves i = size when no family matches
RECURSIVE ScanDedicatedCompute(_, _)
ScanDedicatedCompute(props, i) ==
    IF i >= Len(props) THEN i
    ELSE IF VK_QUEUE_COMPUTE_BIT \in props[i + 1] /\ VK_QUEUE_GRAPHICS_BIT \notin props[i + 1]
         THEN i
         ELSE ScanDedicatedCompute(props, i + 1)

\* The second loop without its test of the compute bit
RECURSIVE ScanDedicatedTransfer_AllowCompute(_, _)
ScanDedicatedTransfer_AllowCompute(props, i) ==
    IF i >= Len(props) THEN i
    ELSE IF /\ VK_QUEUE_TRANSFER_BIT \in props[i + 1]
            /\ VK_QUEUE_GRAPHICS_BIT \notin props[i + 1]
         THEN i
         ELSE ScanDedicatedTransfer_AllowCompute(props, i + 1)

\* Second loop
RECURSIVE ScanDedicatedTransfer(_, _)
ScanDedicatedTransfer(props, i) ==
    IF i >= Len(props) THEN i
    ELSE IF /\ VK_QUEUE_TRANSFER_BIT \in props[i + 1]
            /\ VK_QUEUE_GRAPHICS_BIT \notin props[i + 1]
            /\ VK_QUEUE_COMPUTE_BIT \notin props[i + 1]
         THEN i
         ELSE ScanDedicatedTransfer(props, i + 1)

\* The last loop testing (flags & queueFlags) != 0
RECURSIVE ScanSuperset_AnyBit(_, _, _)
ScanSuperset_AnyBit(props, queueFlags, i) ==
    IF i >= Len(props) THEN i
    ELSE IF props[i + 1] \cap queueFlags # {}
         THEN i
         ELSE ScanSuperset_AnyBit(props, queueFlags, i + 1)

\* Last loop: (flags & queueFlags) == queueFlags
RECURSIVE ScanSuperset(_, _, _)
ScanSuperset(props, queueFlags, i) ==
    IF i >= Len(props) THEN i
    ELSE IF props[i + 1] \cap queueFlags = queueFlags
         THEN i
         ELSE ScanSuperset(props, queueFlags, i + 1)

\* (queueFlags & BIT) == queueFlags selects a loop; a loop that finds nothing
\* falls through to the next one, and the end of the function throws
getQueueFamilyIndex(props, queueFlags) ==
    LET n == Len(props)
        c == IF queueFlags \cap {VK_QUEUE_COMPUTE_BIT} = queueFlags
             THEN ScanDedicatedCompute(props, 0) ELSE n
        t == IF queueFlags \cap {VK_QUEUE_TRANSFER_BIT} = queueFlags
             THEN ScanDedicatedTransfer(props, 0) ELSE n
        g == ScanSuperset(props, queueFlags, 0)
    IN  IF c < n THEN [thrown |-> FALSE, index |-> c]
        ELSE IF t < n THEN [thrown |-> FALSE, index |-> t]
        ELSE IF g < n THEN [thrown |-> FALSE, index |-> g]
        ELSE [thrown |-> TRUE]

\* One call of getQueueFamilyIndex on a reported table
LookupQueueFamily ==
    /\ dev.phase = "lookup"
    /\ dev' = [phase                 |-> "lookedUp",
               queueFamilyProperties |-> dev.queueFamilyProperties,
               queueFlags            |-> dev.queueFlags,
               result                |-> getQueueFamilyIndex(dev.queueFamilyProperties,
                                                             dev.queueFlags)]
    /\ UNCHANGED <<impl, ndebug, appState, chainVars, syncVars, frameVars, gpuVars,
                   sel, boot, teardownLog, inst>>

LowestOf(S) == CHOOSE i \in S : \A j \in S : i <= j

\* C27: a compute-only request gets the lowest family with COMPUTE and
\* without GRAPHICS when there is one; a transfer-only request gets the lowest
\* family with TRANSFER and without GRAPHICS and COMPUTE when there is one;
\* every other call that returns gets the lowest family whose flags contain
\* all requested flags.
C27_QueueFamilyPreference ==
    dev.phase = "lookedUp" =>
        LET IsDedicatedCompute(f) ==
                VK_QUEUE_COMPUTE_BIT \in f /\ VK_QUEUE_GRAPHICS_BIT \notin f
            IsDedicatedTransfer(f) ==
                /\ VK_QUEUE_TRANSFER_BIT \in f
                /\ VK_QUEUE_GRAPHICS_BIT \notin f
                /\ VK_QUEUE_COMPUTE_BIT \notin f
            families == 0 .. Len(dev.queueFamilyProperties) - 1
            flagsOf(i) == dev.queueFamilyProperties[i + 1]
            dedicated ==
                IF dev.queueFlags = {VK_QUEUE_COMPUTE_BIT}
                THEN {i \in families : IsDedicatedCompute(flagsOf(i))}
                ELSE IF dev.queueFlags = {VK_QUEUE_TRANSFER_BIT}
                     THEN {i \in families : IsDedicatedTransfer(flagsOf(i))}
                     ELSE {}
            general == {i \in families : dev.queueFlags \subseteq flagsOf(i)}
        IN  /\ dedicated # {} =>
                ~dev.result.thrown /\ dev.result.index = LowestOf(dedicated)
            /\ dedicated = {} /\ general # {} =>
                ~dev.result.thrown /\ dev.result.index = LowestOf(general)

\* A transfer-only request on a table whose first family does transfer and
\* compute and which holds two dedicated transfer families after it
C27_Witness ==
    /\ dev.phase = "lookedUp"
    /\ dev.queueFlags = {VK_QUEUE_TRANSFER_BIT}
    /\ dev.queueFamilyProperties =
          <<{VK_QUEUE_TRANSFER_BIT, VK_QUEUE_COMPUTE_BIT},
            {VK_QUEUE_TRANSFER_BIT}, {VK_QUEUE_TRANSFER_BIT}>>
    /\ dev.result = [thrown |-> FALSE, index |-> 1]

\* C28: the call throws exactly when no family's flags contain all requested
\* flags; a returned index lies inside the table and its family has every
\* requested flag.
C28_ThrowsIffNoSuperset ==
    dev.phase = "lookedUp" =>
        LET n == Len(dev.queueFamilyProperties)
            general == {i \in 0 .. n - 1 : dev.queueFlags \subseteq dev.queueFamilyProperties[i + 1]}
        IN  /\ dev.result.thrown <=> general = {}
            /\ ~dev.result.thrown =>
                  /\ dev.result.index \in 0 .. n - 1
                  /\ dev.queueFlags \subseteq dev.queueFamilyProperties[dev.result.index + 1]

\* A request for graphics and compute that throws although one family does
\* graphics and another does compute
C28_Witness ==
    /\ dev.phase = "lookedUp"
    /\ dev.queueFlags = {VK_QUEUE_GRAPHICS_BIT, VK_QUEUE_COMPUTE_BIT}
    /\ dev.queueFamilyProperties = <<{VK_QUEUE_GRAPHICS_BIT}, {VK_QUEUE_COMPUTE_BIT}>>
    /\ dev.result.thrown

\* ======================================================== device creation
\* createLogicalDevice of the example and the constructor of tinyrhi's
\* VulkanDevice resolve one family per requested queue type, collect the
\* queue-create entries, call vkCreateDevice and create the default command
\* pool.  An entry is modelled by its queueFamilyIndex.

VK_COMMAND_POOL_CREATE_RESET_COMMAND_BUFFER_BIT == "VK_COMMAND_POOL_CREATE_RESET_COMMAND_BUFFER_BIT"

\* commandPool before any pool is created
NoPool == [handle |-> VK_NULL_HANDLE]

\* The pool vkCreateCommandPool makes from a VkCommandPoolCreateInfo
Pool(queueFamilyIndex, flags) ==
    [handle |-> 1, queueFamilyIndex |-> queueFamilyIndex, flags |-> flags]

\* UINT32_MAX, the value queueNodeIndex starts with, written as its signed reading
NoQueueNode == 0 - 1

VK_KHR_SWAPCHAIN_EXTENSION_NAME == "VK_KHR_swapchain"

\* A physical device: its family table, per family what
\* vkGetPhysicalDeviceSurfaceSupportKHR answers, and the extension names
\* vkEnumerateDeviceExtensionProperties reports
DeviceInputs ==
    UNION { [phase : {"physical"}, queueFamilyProperties : {t},
             supportsPresent : [1 .. Len(t) -> BOOLEAN],
             supportedExtensions : SUBSET {VK_KHR_SWAPCHAIN_EXTENSION_NAME}]
            : t \in FamilyTables }

\* VulkanDevice::extensionSupported: std::find over supportedExtensions
extensionSupported(supportedExtensions, extension) ==
    extension \in supportedExtensions

\* What the tinyrhi constructor writes to std::cerr for its deviceExtensions
\* before it hands them to vkCreateDevice
ExtensionWarnings_tinyrhi(supportedExtensions) ==
    IF extensionSupported(supportedExtensions, VK_KHR_SWAPCHAIN_EXTENSION_NAME)
    THEN <<>>
    ELSE <<[op |-> "warning", extension |-> VK_KHR_SWAPCHAIN_EXTENSION_NAME]>>

\* createLogicalDevice of the example fills deviceExtensions and then neither
\* tests the names nor writes them into deviceCreateInfo
ExtensionWarnings_example(supportedExtensions) == <<>>

ExtensionWarnings(supportedExtensions) ==
    IF impl = "example" THEN ExtensionWarnings_example(supportedExtensions)
    ELSE ExtensionWarnings_tinyrhi(supportedExtensions)

\* queueFamilyIndices and queueCreateInfos before the first block
NoQueues ==
    [thrown |-> FALSE, graphics |-> 0, compute |-> 0, transfer |-> 0,
     queueCreateInfos |-> <<>>]

\* "Graphics queue" block
GraphicsQueueBlock(props, requestedQueueTypes, q) ==
    IF q.thrown THEN q
    ELSE IF VK_QUEUE_GRAPHICS_BIT \in requestedQueueTypes
    THEN LET r == getQueueFamilyIndex(props, {VK_QUEUE_GRAPHICS_BIT})
         IN  IF r.thrown THEN [q EXCEPT !.thrown = TRUE]
             ELSE [q EXCEPT !.graphics = r.index,
                            !.queueCreateInfos = Append(@, r.index)]
    ELSE [q EXCEPT !.graphics = 0]

\* "Dedicated compute queue" block
ComputeQueueBlock(props, requestedQueueTypes, q) ==
    IF q.thrown THEN q
    ELSE IF VK_QUEUE_COMPUTE_BIT \in requestedQueueTypes
    THEN LET r == getQueueFamilyIndex(props, {VK_QUEUE_COMPUTE_BIT})
         IN  IF r.thrown THEN [q EXCEPT !.thrown = TRUE]
             ELSE IF r.index # q.graphics
                  THEN [q EXCEPT !.compute = r.index,
                                 !.queueCreateInfos = Append(@, r.index)]
                  ELSE [q EXCEPT !.compute = r.index]
    ELSE [q EXCEPT !.compute = q.graphics]

\* "Dedicated transfer queue" block
TransferQueueBlock(props, requestedQueueTypes, q) ==
    IF q.thrown THEN q
    ELSE IF VK_QUEUE_TRANSFER_BIT \in requestedQueueTypes
    THEN LET r == getQueueFamilyIndex(props, {VK_QUEUE_TRANSFER_BIT})
         IN  IF r.thrown THEN [q EXCEPT !.thrown = TRUE]
             ELSE IF r.index # q.graphics /\ r.index # q.compute
                  THEN [q EXCEPT !.transfer = r.index,
                                 !.queueCreateInfos = Append(@, r.index)]
                  ELSE [q EXCEPT !.transfer = r.index]
    ELSE [q EXCEPT !.transfer = q.graphics]

\* The queue part of createLogicalDevice for a given requestedQueueTypes: the
\* three blocks, once each
QueueBlocks(props, requestedQueueTypes) ==
    TransferQueueBlock(props, requestedQueueTypes,
    ComputeQueueBlock(props, requestedQueueTypes,
    GraphicsQueueBlock(props, requestedQueueTypes, NoQueues)))

\* createLogicalDevice is called with its default requestedQueueTypes,
\* graphics and compute
QueueSetup_example(props) ==
    QueueBlocks(props, {VK_QUEUE_GRAPHICS_BIT, VK_QUEUE_COMPUTE_BIT})

\* The constructor requests all three types and holds the compute block and
\* the transfer block twice
QueueSetup_tinyrhi(props) ==
    LET requestedQueueTypes == QueueFlagBits
    IN  TransferQueueBlock(props, requestedQueueTypes,
        ComputeQueueBlock(props, requestedQueueTypes,
        TransferQueueBlock(props, requestedQueueTypes,
        ComputeQueueBlock(props, requestedQueueTypes,
        GraphicsQueueBlock(props, requestedQueueTypes, NoQueues)))))

QueueSetup(props) ==
    IF impl = "example" THEN QueueSetup_example(props) ELSE QueueSetup_tinyrhi(props)

\* Device creation: an exception of getQueueFamilyIndex leaves the function;
\* the requested extensions are looked up and a missing one is reported on
\* std::cerr; when vkCreateDevice fails the function returns before the
\* command pool is created.
\* The default pool is made for queueFamilyIndices.graphics with the reset flag.
createLogicalDevice ==
    /\ dev.phase = "physical"
    /\ LET q == QueueSetup(dev.queueFamilyProperties)
       IN  IF q.thrown
           THEN dev' = [phase                 |-> "deviceThrown",
                        queueFamilyProperties |-> dev.queueFamilyProperties,
                        supportsPresent       |-> dev.supportsPresent,
                        supportedExtensions   |-> dev.supportedExtensions,
                        deviceLog             |-> <<>>]
           ELSE \E result \in {VK_SUCCESS, VK_ERROR} :
                dev' = [phase                 |-> IF result = VK_SUCCESS
                                                  THEN "deviceCreated" ELSE "deviceFailed",
                        queueFamilyProperties |-> dev.queueFamilyProperties,
                        supportsPresent       |-> dev.supportsPresent,
                        supportedExtensions   |-> dev.supportedExtensions,
                        deviceLog             |->
                            ExtensionWarnings(dev.supportedExtensions) \o
                            <<[op |-> "vkCreateDevice", res |-> result]>>,
                        queueFamilyIndices    |-> [graphics |-> q.graphics,
                                                   compute  |-> q.compute,
                                                   transfer |-> q.transfer],
                        queueCreateInfos      |-> q.queueCreateInfos,
                        commandPool           |->
                            IF result = VK_SUCCESS
                            THEN Pool(q.graphics,
                                      {VK_COMMAND_POOL_CREATE_RESET_COMMAND_BUFFER_BIT})
                            ELSE NoPool,
                        queueNodeIndex        |-> NoQueueNode,
                        framePool             |-> NoPool]
    /\ UNCHANGED <<impl, ndebug, appState, chainVars, syncVars, frameVars, gpuVars,
                   sel, boot, teardownLog, inst>>

\* initSurface, first search: the first graphics family is remembered, a
\* graphics family that presents ends the search
RECURSIVE GraphicsPresentScan(_, _, _, _)
GraphicsPresentScan(props, supportsPresent, i, graphicsQueueNodeIndex) ==
    IF i >= Len(props)
    THEN [graphics |-> graphicsQueueNodeIndex, present |-> NoQueueNode]
    ELSE IF VK_QUEUE_GRAPHICS_BIT \in props[i + 1]
         THEN IF supportsPresent[i + 1]
              THEN [graphics |-> i, present |-> i]
              ELSE GraphicsPresentScan(props, supportsPresent, i + 1,
                                       IF graphicsQueueNodeIndex = NoQueueNode
                                       THEN i ELSE graphicsQueueNodeIndex)
         ELSE GraphicsPresentScan(props, supportsPresent, i + 1, graphicsQueueNodeIndex)

\* Second search of tinyrhi: the first family that presents
RECURSIVE PresentScan(_, _)
PresentScan(supportsPresent, i) ==
    IF i >= Len(supportsPresent) THEN NoQueueNode
    ELSE IF supportsPresent[i + 1] THEN i
         ELSE PresentScan(supportsPresent, i + 1)

\* Second search of the example: the inner loop tests nothing and stores
\* family 0
PresentFallback_example(supportsPresent) ==
    IF Len(supportsPresent) > 0 THEN 0 ELSE NoQueueNode

\* Queue search of the example's initSurface; it throws when a queue is
\* missing or the two indices differ
QueueNode_example(props, supportsPresent) ==
    LET s == GraphicsPresentScan(props, supportsPresent, 0, NoQueueNode)
        p == IF s.present = NoQueueNode
             THEN PresentFallback_example(supportsPresent) ELSE s.present
    IN  IF s.graphics = NoQueueNode \/ p = NoQueueNode \/ s.graphics # p
        THEN [outcome |-> "thrown", queueNodeIndex |-> NoQueueNode]
        ELSE [outcome |-> "ok", queueNodeIndex |-> s.graphics]

\* Queue search of tinyrhi's initSurface; it returns early when a queue is
\* missing
QueueNode_tinyrhi(props, supportsPresent) ==
    LET s == GraphicsPresentScan(props, supportsPresent, 0, NoQueueNode)
        p == IF s.present = NoQueueNode THEN PresentScan(supportsPresent, 0) ELSE s.present
    IN  IF s.graphics = NoQueueNode \/ p = NoQueueNode
        THEN [outcome |-> "early", queueNodeIndex |-> NoQueueNode]
        ELSE [outcome |-> "ok", queueNodeIndex |-> s.graphics]

\* What the queue search of initSurface can come to.  The example's swap
\* chain was never connected, so the search crashes or runs as if it had the
\* device; tinyrhi returns before the search when the surface was not created.
QueueNodeOutcomes ==
    IF impl = "example"
    THEN {[outcome |-> "crash", queueNodeIndex |-> NoQueueNode],
          QueueNode_example(dev.queueFamilyProperties, dev.supportsPresent)}
    ELSE {[outcome |-> "early", queueNodeIndex |-> NoQueueNode],
          QueueNode_tinyrhi(dev.queueFamilyProperties, dev.supportsPresent)}

\* initSurface on the created device: sets swapChain.queueNodeIndex
initSurfaceQueue ==
    /\ dev.phase = "deviceCreated"
    /\ \E r \in QueueNodeOutcomes :
         dev' = [dev EXCEPT !.phase = IF r.outcome = "ok" THEN "surfaceReady"
                                      ELSE IF r.outcome = "early" THEN "surfaceMissing"
                                      ELSE "surfaceAborted",
                            !.queueNodeIndex = r.queueNodeIndex]
    /\ UNCHANGED <<impl, ndebug, appState, chainVars, syncVars, frameVars, gpuVars,
                   sel, boot, teardownLog, inst>>

\* createCommandBuffers: the example creates the pool of the per-frame
\* command buffers for swapChain.queueNodeIndex; tinyrhi's function is empty
createCommandBuffers ==
    /\ dev.phase \in {"surfaceReady", "surfaceMissing"}
    /\ dev' = [dev EXCEPT !.phase = "commandBuffers",
                          !.framePool =
                              IF impl = "example"
                              THEN Pool(dev.queueNodeIndex,
                                        {VK_COMMAND_POOL_CREATE_RESET_COMMAND_BUFFER_BIT})
                              ELSE @]
    /\ UNCHANGED <<impl, ndebug, appState, chainVars, syncVars, frameVars, gpuVars,
                   sel, boot, teardownLog, inst>>

\* C29: the queue-create entries handed to vkCreateDevice carry pairwise
\* different family indices, and a table of one family with GRAPHICS, COMPUTE
\* and TRANSFER yields exactly one entry.
C29_OneEntryPerFamily ==
    dev.phase \in {"deviceCreated", "deviceFailed"} =>
        /\ \A i, j \in 1 .. Len(dev.queueCreateInfos) :
               i # j => dev.queueCreateInfos[i] # dev.queueCreateInfos[j]
        /\ dev.queueFamilyProperties = <<QueueFlagBits>> => Len(dev.queueCreateInfos) = 1

\* The example's createLogicalDevice keeps the entries distinct
ExampleEntriesDistinct ==
    impl = "example" /\ dev.phase \in {"deviceCreated", "deviceFailed"} =>
        \A i, j \in 1 .. Len(dev.queueCreateInfos) :
            i # j => dev.queueCreateInfos[i] # dev.queueCreateInfos[j]

\* One family with all three bits yields one entry in both programs
SingleFamilySingleEntry ==
    dev.phase \in {"deviceCreated", "deviceFailed"}
    /\ dev.queueFamilyProperties = <<QueueFlagBits>> => Len(dev.queueCreateInfos) = 1

\* C30: once the device is created the default command pool exists, is made
\* for the resolved graphics family and has the reset flag; the pool of the
\* per-frame command buffers is made for that same family.
C30_PoolsOnGraphicsFamily ==
    /\ dev.phase \in {"deviceCreated", "surfaceReady", "surfaceMissing",
                      "surfaceAborted", "commandBuffers"} =>
          /\ dev.commandPool # NoPool
          /\ dev.commandPool.queueFamilyIndex = dev.queueFamilyIndices.graphics
          /\ VK_COMMAND_POOL_CREATE_RESET_COMMAND_BUFFER_BIT \in dev.commandPool.flags
          /\ getQueueFamilyIndex(dev.queueFamilyProperties, {VK_QUEUE_GRAPHICS_BIT}) =
                [thrown |-> FALSE, index |-> dev.queueFamilyIndices.graphics]
    /\ dev.phase = "commandBuffers" /\ dev.framePool # NoPool =>
          dev.framePool.queueFamilyIndex = dev.queueFamilyIndices.graphics

\* The default pool alone: graphics family, reset flag
DefaultPoolOnGraphicsFamily ==
    dev.phase \in {"deviceCreated", "surfaceReady", "surfaceMissing",
                   "surfaceAborted", "commandBuffers"} =>
        /\ dev.commandPool # NoPool
        /\ dev.commandPool.queueFamilyIndex = dev.queueFamilyIndices.graphics
        /\ VK_COMMAND_POOL_CREATE_RESET_COMMAND_BUFFER_BIT \in dev.commandPool.flags
\* C31: when the requested device extension is not in supportedExtensions and
\* the queues resolve, a warning is written, vkCreateDevice is still called
\* after it, and a successful call leaves the device created.
C31_MissingExtensionOnlyWarns ==
    (/\ dev.phase \in {"deviceThrown", "deviceCreated", "deviceFailed"}
     /\ ~QueueSetup(dev.queueFamilyProperties).thrown
     /\ VK_KHR_SWAPCHAIN_EXTENSION_NAME \notin dev.supportedExtensions)
        => /\ Len(dev.deviceLog) = 2
           /\ dev.deviceLog[1] = [op |-> "warning", extension |-> VK_KHR_SWAPCHAIN_EXTENSION_NAME]
           /\ dev.deviceLog[2].op = "vkCreateDevice"
           /\ dev.deviceLog[2].res = VK_SUCCESS <=> dev.phase = "deviceCreated"

\* The tinyrhi constructor warns about the missing extension and goes on to
\* vkCreateDevice
TinyrhiMissingExtensionOnlyWarns ==
    impl = "tinyrhi" => C31_MissingExtensionOnlyWarns
\* C38: after initSurface returned normally, queueNodeIndex names a family
\* that has the GRAPHICS flag and presents to the surface; when no family
\* does both, initSurface does not return normally.
C38_QueueNodeGraphicsAndPresent ==
    dev.phase = "surfaceReady" =>
        /\ dev.queueNodeIndex \in 0 .. Len(dev.queueFamilyProperties) - 1
        /\ VK_QUEUE_GRAPHICS_BIT \in dev.queueFamilyProperties[dev.queueNodeIndex + 1]
        /\ dev.supportsPresent[dev.queueNodeIndex + 1]

\* When some graphics family presents, the search settles on the first such
\* family
FirstPresentingGraphicsFamily ==
    LET both == {i \in 0 .. Len(dev.queueFamilyProperties) - 1 :
                    /\ VK_QUEUE_GRAPHICS_BIT \in dev.queueFamilyProperties[i + 1]
                    /\ dev.supportsPresent[i + 1]}
    IN  dev.phase = "surfaceReady" /\ both # {} => dev.queueNodeIndex = LowestOf(both)
\* createLogicalDevice as a function of its parameter requestedQueueTypes
QueueTypeInputs ==
    [phase : {"queueTypes"}, queueFamilyProperties : FamilyTables,
     requestedQueueTypes : SUBSET QueueFlagBits]

\* The queue part of one createLogicalDevice call
ResolveQueues ==
    /\ dev.phase = "queueTypes"
    /\ LET q == QueueBlocks(dev.queueFamilyProperties, dev.requestedQueueTypes)
       IN  dev' = [phase                 |-> IF q.thrown THEN "queuesThrown" ELSE "queuesResolved",
                   queueFamilyProperties |-> dev.queueFamilyProperties,
                   requestedQueueTypes   |-> dev.requestedQueueTypes,
                   queueFamilyIndices    |-> [graphics |-> q.graphics,
                                              compute  |-> q.compute,
                                              transfer |-> q.transfer],
                   queueCreateInfos      |-> q.queueCreateInfos]
    /\ UNCHANGED <<impl, ndebug, appState, chainVars, syncVars, frameVars, gpuVars,
                   sel, boot, teardownLog, inst>>

\* C39: the family resolved for every requested capability appears in a
\* queue-create entry, whatever requestedQueueTypes is.
C39_RequestedQueuesCreated ==
    dev.phase = "queuesResolved" =>
        LET entries == SeqRange(dev.queueCreateInfos)
        IN  /\ VK_QUEUE_GRAPHICS_BIT \in dev.requestedQueueTypes
                  => dev.queueFamilyIndices.graphics \in entries
            /\ VK_QUEUE_COMPUTE_BIT \in dev.requestedQueueTypes
                  => dev.queueFamilyIndices.compute \in entries
            /\ VK_QUEUE_TRANSFER_BIT \in dev.requestedQueueTypes
                  => dev.queueFamilyIndices.transfer \in entries

\* With GRAPHICS among the requested types every requested capability has
\* its entry
QueuesCreatedWhenGraphicsRequested ==
    dev.phase = "queuesResolved" /\ VK_QUEUE_GRAPHICS_BIT \in dev.requestedQueueTypes
        => C39_RequestedQueuesCreated
\* ------------------------------ specification of the device creation
InitDevice ==
    /\ InitCore
    /\ sel = NoSel
    /\ boot = ReadyBoot
    /\ teardownLog = <<>>
    /\ inst = NoInst
    /\ dev \in LookupInputs \cup DeviceInputs \cup QueueTypeInputs

NextDevice ==
    \/ LookupQueueFamily
    \/ createLogicalDevice
    \/ initSurfaceQueue
    \/ createCommandBuffers
    \/ ResolveQueues

SpecDevice == InitDevice /\ [][NextDevice]_vars

\* ======================================================= instance creation
\* createInstance of the example (and its earlier revision, whose
\* createInstance throws) and the instance part of tinyrhi's initVulkan.

VK_EXT_DEBUG_UTILS_EXTENSION_NAME == "VK_EXT_debug_utils"

\* An extension name a user of the classes puts into enabledInstanceExtensions
RequestedInstanceExtension == "VK_KHR_get_physical_device_properties2"

InstanceExtensionNames == {VK_EXT_DEBUG_UTILS_EXTENSION_NAME, RequestedInstanceExtension}

\* What instance creation starts from: the revision of the example, the
\* validation setting, the requested extensions, the extensions and the
\* validation layer the loader reports, and the value the earlier revision's
\* checkValidationLayerSupport happens to return (it ends without a return
\* statement)
InstanceInputs ==
    [phase : {"requested"},
     revision : {"current", "earlier"},
     validation : BOOLEAN,
     enabledInstanceExtensions : SUBSET {RequestedInstanceExtension},
     supportedInstanceExtensions : SUBSET InstanceExtensionNames,
     validationLayerPresent : BOOLEAN,
     checkReturns : BOOLEAN]

\* Warnings for requested extensions missing from supportedInstanceExtensions
InstanceExtensionWarnings(in) ==
    IF in.enabledInstanceExtensions \subseteq in.supportedInstanceExtensions
    THEN <<>>
    ELSE <<[op |-> "warning", what |-> RequestedInstanceExtension]>>

\* Layer part: the layer is enabled when present, else a warning is written
ValidationLayer(in) ==
    IF ~in.validation THEN [log |-> <<>>, enabledLayerCount |-> 0]
    ELSE IF in.validationLayerPresent THEN [log |-> <<>>, enabledLayerCount |-> 1]
    ELSE [log |-> <<[op |-> "warning", what |-> "VK_LAYER_KHRONOS_validation"]>>,
          enabledLayerCount |-> 0]

\* createInstance of the example: a requested extension is enabled whether or
\* not it is supported; the debug utils extension is added when validation is
\* on or the extension is supported
createInstance_example(in, result) ==
    LET layer == ValidationLayer(in)
        exts == in.enabledInstanceExtensions \cup
                (IF in.validation \/ VK_EXT_DEBUG_UTILS_EXTENSION_NAME \in in.supportedInstanceExtensions
                 THEN {VK_EXT_DEBUG_UTILS_EXTENSION_NAME} ELSE {})
    IN  [outcome |-> IF result = VK_SUCCESS THEN "continues" ELSE "returnsFalse",
         log     |-> InstanceExtensionWarnings(in) \o layer.log \o
                     <<[op |-> "vkCreateInstance", res |-> result,
                        extensions |-> exts, enabledLayerCount |-> layer.enabledLayerCount]>>]

\* Instance part of tinyrhi's initVulkan: only supported requested extensions
\* are enabled
createInstance_tinyrhi(in, result) ==
    LET layer == ValidationLayer(in)
        exts == in.enabledInstanceExtensions \cap in.supportedInstanceExtensions
    IN  [outcome |-> IF result = VK_SUCCESS THEN "continues" ELSE "returnsFalse",
         log     |-> InstanceExtensionWarnings(in) \o layer.log \o
                     <<[op |-> "vkCreateInstance", res |-> result,
                        extensions |-> exts, enabledLayerCount |-> layer.enabledLayerCount]>>]

\* createInstance of the earlier revision: validation is on in a build
\* without NDEBUG; it throws when checkValidationLayerSupport answers false
\* and when vkCreateInstance fails.  enabledLayerCount is reset to 0 before
\* the call.
createInstance_earlier(in, result) ==
    LET enableValidationLayers == ~ndebug
        exts == IF enableValidationLayers THEN {VK_EXT_DEBUG_UTILS_EXTENSION_NAME} ELSE {}
    IN  IF enableValidationLayers /\ ~in.checkReturns
        THEN [outcome |-> "thrown", log |-> <<>>]
        ELSE [outcome |-> IF result = VK_SUCCESS THEN "continues" ELSE "thrown",
              log     |-> <<[op |-> "vkCreateInstance", res |-> result,
                             extensions |-> exts, enabledLayerCount |-> 0]>>]

\* Whether the run asks for validation
ValidationRequested ==
    IF inst.revision = "earlier" THEN ~ndebug ELSE inst.validation

createInstance ==
    /\ inst.phase = "requested"
    /\ \E result \in {VK_SUCCESS, VK_ERROR} :
         LET r == IF inst.revision = "earlier" THEN createInstance_earlier(inst, result)
                  ELSE IF impl = "example" THEN createInstance_example(inst, result)
                  ELSE createInstance_tinyrhi(inst, result)
         IN  inst' = [inst EXCEPT !.phase = r.outcome] @@ [log |-> r.log]
    /\ UNCHANGED <<impl, ndebug, appState, chainVars, syncVars, frameVars, gpuVars,
                   sel, boot, teardownLog, dev>>

\* C32: when validation is asked for and the layer is missing, or a requested
\* instance extension is unsupported, a warning is written, vkCreateInstance
\* is still called, without a layer when the layer is missing, and startup
\* goes on when the call succeeds.
C32_MissingLayerOrExtensionOnlyLogged ==
    LET done == inst.phase \in {"continues", "returnsFalse", "thrown"}
        layerMissing == ValidationRequested /\ ~inst.validationLayerPresent
        extMissing == /\ inst.revision = "current"
                      /\ ~(inst.enabledInstanceExtensions \subseteq inst.supportedInstanceExtensions)
        n == Len(inst.log)
    IN  done /\ (layerMissing \/ extMissing) =>
            /\ n >= 2
            /\ \A i \in 1 .. n - 1 : inst.log[i].op = "warning"
            /\ inst.log[n].op = "vkCreateInstance"
            /\ layerMissing => inst.log[n].enabledLayerCount = 0
            /\ inst.log[n].res = VK_SUCCESS => inst.phase = "continues"

\* The current example and tinyrhi only log a missing layer or extension
CurrentRevisionsOnlyLog ==
    inst.phase # "none" /\ inst.revision = "current" => C32_MissingLayerOrExtensionOnlyLogged

\* ------------------------------ specification of the instance creation
InitInstance ==
    /\ InitCore
    /\ sel = NoSel
    /\ boot = ReadyBoot
    /\ teardownLog = <<>>
    /\ dev = NoDev
    /\ inst \in InstanceInputs
    /\ impl = "tinyrhi" => inst.revision = "current"

NextInstance ==
    \/ createInstance

SpecInstance == InitInstance /\ [][NextInstance]_vars
====
